---- MODULE Spec2Model ----
(***************************************************************************)
(* Model of the SQL expression checker of dexon's sqlvm (checkExpr and the *)
(* per-node check functions: type checking, type inference and constant    *)
(* folding).  The expression tree lives in a heap of nodes addressed by    *)
(* node ids, because the Go code works on pointers: a check function either*)
(* updates the node it was given in place or allocates a new node, and its *)
(* callers keep pointers taken before the call.  The error list is threaded*)
(* through every call in program order.                                    *)
(***************************************************************************)
EXTENDS Integers, Sequences, FiniteSets, TLC

VARIABLES
    heap,     \* the nodes of the expression trees, by node id
    el,       \* the errors.ErrorList shared by all check calls
    call,     \* the checkExpr call in progress or last returned: node, options, type action
    ret,      \* what checkExpr returned: a node id, Nil, StackOverflow or Panic
    elBefore, \* the error list as it was when the call began
    heapBefore, \* the heap as it was when the call began
    peers,    \* peerSet.peers: the peer registered under each id, or NoPeer
    closed,   \* peerSet.closed
    term,     \* per peer: how many times its term channel was closed
    running,  \* per peer: how many of its broadcast loops are running
    psOp,     \* the last call on the peer set: name, argument, error returned
    psBefore, \* peers, closed, term and running as they were when it began
    queued,   \* the queues of one peer: the items in each channel, oldest first
    known,    \* the known sets of that peer: the hashes in each
    pOp,      \* the last call on that peer: name, queue, item
    pBefore,  \* queued and known as they were when it began
    loop,     \* whether the broadcast loop of that peer is still running
    steps,    \* the number of calls made on that peer
    label2Nodes,    \* peerSet.label2Nodes: the node ids of each label built
    directConn,     \* peerSet.directConn: the labels with a direct connection
    groupConnPeers, \* peerSet.groupConnPeers: the node ids chosen for each group label
    allDirectPeers, \* peerSet.allDirectPeers: the labels of each direct peer
    srvr,     \* the node ids the p2p server holds as direct peers
    cOp,      \* the last connection call: name, round, the server calls it made
    lock,     \* peerSet.lock: the goroutine holding it for writing, and those holding it for reading
    gor       \* per goroutine: the method it runs and where it is in it

checkVars == <<heap, el, call, ret, elBefore, heapBefore>>
setVars == <<peers, closed, term, running, psOp, psBefore>>
peerVars == <<queued, known, pOp, pBefore, loop, steps>>
connVars == <<label2Nodes, directConn, groupConnPeers, allDirectPeers, srvr, cOp>>
lockVars == <<lock, gor>>
vars == <<checkVars, setVars, peerVars, connVars, lockVars>>

(***************************************************************************)
(* Local variables.  TLC evaluates the definitions of a LET and the        *)
(* arguments of an operator anew at every use.  A value that the Go code   *)
(* computes once and keeps in a local variable is therefore bound as the   *)
(* argument of a one-point function: Let([v \in {e} |-> body]) is body     *)
(* with v bound to the value of e.                                         *)
(***************************************************************************)
Let(f) == CHOOSE r \in UNION {{g[v] : v \in DOMAIN g} : g \in {f}} : TRUE

(***************************************************************************)
(* Arbitrary-precision naturals.  decimal.Decimal holds a big.Int; TLC's   *)
(* integers are 32 bits wide, so a natural is kept as its decimal digits,  *)
(* least significant first, without leading zeros (zero is the empty       *)
(* sequence).  The digits are worked on in blocks of at most six, and the  *)
(* recursion is logarithmic in the number of digits.                       *)
(***************************************************************************)
Radix == 10

\* a without its leading zeros.
MagNorm(a0) ==
    Let([a \in {a0} |->
        IF a = <<>> THEN a
        ELSE IF a[Len(a)] # 0 THEN a
        ELSE IF \A i \in DOMAIN a : a[i] = 0 THEN <<>>
        ELSE SubSeq(a, 1, CHOOSE i \in DOMAIN a :
                              a[i] # 0 /\ \A j \in (i + 1)..Len(a) : a[j] = 0)])

MagLimb(a, i) == IF i <= Len(a) THEN a[i] ELSE 0

\* Digit i of a if i <= hi, else 0.
MagLimbTo(a, i, hi) == IF i <= hi /\ i <= Len(a) THEN a[i] ELSE 0

\* The number that digits lo..hi of a spell, for hi - lo < 6.
MagBlock(a, lo, hi) ==
    MagLimbTo(a, lo, hi) + Radix * (MagLimbTo(a, lo + 1, hi)
    + Radix * (MagLimbTo(a, lo + 2, hi) + Radix * (MagLimbTo(a, lo + 3, hi)
    + Radix * (MagLimbTo(a, lo + 4, hi) + Radix * MagLimbTo(a, lo + 5, hi)))))

\* The w low digits of the machine-sized s.
BlockDigits(s, w) == [i \in 1..w |-> (s \div Radix ^ (i - 1)) % Radix]

\* big.Int.Cmp on magnitudes: -1, 0 or 1.
MagCmp(a0, b0) ==
    Let([a \in {a0}, b \in {b0} |->
        IF Len(a) < Len(b) THEN -1
        ELSE IF Len(a) > Len(b) THEN 1
        ELSE IF a = b THEN 0
        ELSE Let([top \in {CHOOSE i \in DOMAIN a :
                               a[i] # b[i] /\ \A j \in (i + 1)..Len(a) : a[j] = b[j]} |->
                 IF a[top] < b[top] THEN -1 ELSE 1])])

\* Digits lo..hi of a + b + c, and the carry out of digit hi.
RECURSIVE MagAddRange(_, _, _, _, _)
MagAddRange(a, b, lo, hi, c) ==
    IF lo > hi THEN [d |-> <<>>, c |-> c]
    ELSE IF hi - lo < 6
    THEN Let([s \in {MagBlock(a, lo, hi) + MagBlock(b, lo, hi) + c}, w \in {hi - lo + 1} |->
             [d |-> BlockDigits(s, w), c |-> s \div Radix ^ w]])
    ELSE LET mid == (lo + hi) \div 2 IN
         Let([L \in {MagAddRange(a, b, lo, mid, c)} |->
         Let([H \in {MagAddRange(a, b, mid + 1, hi, L.c)} |->
             [d |-> L.d \o H.d, c |-> H.c]])])

MagAdd(a0, b0) ==
    Let([a \in {a0}, b \in {b0} |->
        IF a = <<>> THEN b
        ELSE IF b = <<>> THEN a
        ELSE Let([R \in {MagAddRange(a, b, 1, IF Len(a) > Len(b) THEN Len(a) ELSE Len(b), 0)} |->
                 IF R.c = 0 THEN R.d ELSE Append(R.d, R.c)])])

\* Digits lo..hi of a - b - c, and the borrow out of digit hi.
RECURSIVE MagSubRange(_, _, _, _, _)
MagSubRange(a, b, lo, hi, c) ==
    IF lo > hi THEN [d |-> <<>>, c |-> c]
    ELSE IF hi - lo < 6
    THEN Let([s \in {MagBlock(a, lo, hi) - MagBlock(b, lo, hi) - c}, w \in {hi - lo + 1} |->
             IF s < 0 THEN [d |-> BlockDigits(s + Radix ^ w, w), c |-> 1]
             ELSE [d |-> BlockDigits(s, w), c |-> 0]])
    ELSE LET mid == (lo + hi) \div 2 IN
         Let([L \in {MagSubRange(a, b, lo, mid, c)} |->
         Let([H \in {MagSubRange(a, b, mid + 1, hi, L.c)} |->
             [d |-> L.d \o H.d, c |-> H.c]])])

\* a - b for a >= b.
MagSub(a0, b0) ==
    Let([a \in {a0}, b \in {b0} |->
        IF b = <<>> THEN a ELSE MagNorm(MagSubRange(a, b, 1, Len(a), 0).d)])

RECURSIVE MagOfNat(_)
MagOfNat(n) == IF n = 0 THEN <<>> ELSE <<n % Radix>> \o MagOfNat(n \div Radix)

\* Digits lo..hi of a * k + c for k <= 128, and the carry out of digit hi.
RECURSIVE MagMulRange(_, _, _, _, _)
MagMulRange(a, k, lo, hi, c) ==
    IF lo > hi THEN [d |-> <<>>, c |-> c]
    ELSE IF hi - lo < 6
    THEN Let([s \in {MagBlock(a, lo, hi) * k + c}, w \in {hi - lo + 1} |->
             [d |-> BlockDigits(s, w), c |-> s \div Radix ^ w]])
    ELSE LET mid == (lo + hi) \div 2 IN
         Let([L \in {MagMulRange(a, k, lo, mid, c)} |->
         Let([H \in {MagMulRange(a, k, mid + 1, hi, L.c)} |->
             [d |-> L.d \o H.d, c |-> H.c]])])

\* a * k for a machine-sized k <= 128.
MagMulSmall(a0, k0) ==
    Let([a \in {a0}, k \in {k0} |->
    Let([R \in {MagMulRange(a, k, 1, Len(a), 0)} |->
        MagNorm(R.d \o MagOfNat(R.c))])])

\* a * 10^n.
MagShift(a0, n) == Let([a \in {a0} |-> IF a = <<>> THEN a ELSE [i \in 1..n |-> 0] \o a])

\* a * (digits lo..hi of b).
RECURSIVE MagMulBy(_, _, _, _)
MagMulBy(a, b, lo, hi) ==
    IF hi - lo < 2 THEN MagMulSmall(a, MagBlock(b, lo, hi))
    ELSE LET mid == (lo + hi) \div 2 IN
             MagAdd(MagMulBy(a, b, lo, mid),
                    MagShift(MagMulBy(a, b, mid + 1, hi), mid - lo + 1))

MagMul(a0, b0) ==
    Let([a \in {a0}, b \in {b0} |->
        IF a = <<>> \/ b = <<>> THEN <<>> ELSE MagMulBy(a, b, 1, Len(b))])

\* The largest q in lo..hi with b * q <= r, by bisection (b * lo <= r holds).
RECURSIVE MagQuoLimb(_, _, _, _)
MagQuoLimb(r, b, lo, hi) ==
    IF lo = hi THEN lo
    ELSE LET mid == (lo + hi + 1) \div 2 IN
             IF MagCmp(MagMulSmall(b, mid), r) <= 0
             THEN MagQuoLimb(r, b, mid, hi)
             ELSE MagQuoLimb(r, b, lo, mid - 1)

\* Long division of digits hi..lo of a by b, entered with remainder r: the
\* quotient digits and the remainder.
RECURSIVE MagDivRange(_, _, _, _, _)
MagDivRange(a, b, lo, hi, r) ==
    IF lo > hi THEN [q |-> <<>>, r |-> r]
    ELSE IF lo = hi
    THEN Let([r1 \in {MagNorm(<<a[lo]>> \o r)} |->
             IF Len(r1) < Len(b) THEN [q |-> <<0>>, r |-> r1]
             ELSE Let([d \in {MagQuoLimb(r1, b, 0, Radix - 1)} |->
                      [q |-> <<d>>, r |-> MagSub(r1, MagMulSmall(b, d))]])])
    ELSE LET mid == (lo + hi) \div 2 IN
         Let([H \in {MagDivRange(a, b, mid + 1, hi, r)} |->
         Let([L \in {MagDivRange(a, b, lo, mid, H.r)} |->
             [q |-> L.q \o H.q, r |-> L.r]])])

\* Long division of digits hi..lo of a by a machine-sized k < 1000, entered
\* with remainder r < k: the quotient digits and the remainder.
RECURSIVE MagDivSmallRange(_, _, _, _, _)
MagDivSmallRange(a, k, lo, hi, r) ==
    IF hi - lo < 6
    THEN Let([s \in {r * Radix ^ (hi - lo + 1) + MagBlock(a, lo, hi)} |->
             [q |-> BlockDigits(s \div k, hi - lo + 1), r |-> s % k]])
    ELSE LET mid == (lo + hi) \div 2 IN
         Let([H \in {MagDivSmallRange(a, k, mid + 1, hi, r)} |->
         Let([L \in {MagDivSmallRange(a, k, lo, mid, H.r)} |->
             [q |-> L.q \o H.q, r |-> L.r]])])

\* big.Int.QuoRem on magnitudes, b # 0: a = b * q + r with 0 <= r < b.
MagDivMod(a0, b0) ==
    Let([a \in {a0}, b \in {b0} |->
        IF MagCmp(a, b) < 0 THEN [q |-> <<>>, r |-> a]
        ELSE IF Len(b) <= 3
        THEN Let([R \in {MagDivSmallRange(a, MagBlock(b, 1, 3), 1, Len(a), 0)} |->
                 [q |-> MagNorm(R.q), r |-> MagNorm(BlockDigits(R.r, 3))]])
        ELSE Let([R \in {MagDivRange(a, b, 1, Len(a), <<>>)} |->
                 [q |-> MagNorm(R.q), r |-> R.r]])])

\* a divided by a machine-sized k # 0: quotient and remainder.
MagDivSmall(a0, k) ==
    Let([a \in {a0} |->
        IF a = <<>> THEN [q |-> <<>>, r |-> 0]
        ELSE Let([R \in {MagDivSmallRange(a, k, 1, Len(a), 0)} |->
                 [q |-> MagNorm(R.q), r |-> R.r]])])

(***************************************************************************)
(* decimal.Decimal: sign, coefficient and exponent; the value is           *)
(* (-1)^neg * mag * 10^exp.  Zero has neg = FALSE.                         *)
(***************************************************************************)
Dec(neg, mag0, exp) ==
    Let([mag \in {mag0} |-> [neg |-> neg /\ mag # <<>>, mag |-> mag, exp |-> exp]])

\* decimal.New(n, exp) for a machine-sized n.
DecNew(n, exp) == Dec(n < 0, MagOfNat(IF n < 0 THEN -n ELSE n), exp)

DecZero == [neg |-> FALSE, mag |-> <<>>, exp |-> 0]

\* The coefficient of d at exponent e <= d.exp.
DecMagAt(d, e) == MagShift(d.mag, d.exp - e)

\* Decimal.rescale: the same value at exponent e, truncated toward zero when
\* e is above the exponent of d.
DecRescale(d0, e0) ==
    Let([d \in {d0}, e \in {e0} |->
        IF e <= d.exp THEN Dec(d.neg, DecMagAt(d, e), e)
        ELSE Dec(d.neg, SubSeq(d.mag, e - d.exp + 1, Len(d.mag)), e)])

\* Decimal.Cmp: -1, 0 or 1.
DecCmp(a0, b0) ==
    Let([a \in {a0}, b \in {b0} |->
        IF a.neg /\ ~b.neg THEN -1
        ELSE IF ~a.neg /\ b.neg THEN 1
        ELSE Let([e \in {IF a.exp < b.exp THEN a.exp ELSE b.exp} |->
             Let([c \in {MagCmp(DecMagAt(a, e), DecMagAt(b, e))} |->
                 IF a.neg THEN -c ELSE c])])])

DecLessThan(a, b) == DecCmp(a, b) < 0
DecGreaterThan(a, b) == DecCmp(a, b) > 0
DecEqual(a, b) == DecCmp(a, b) = 0

DecIsZero(d) == d.mag = <<>>

DecNeg(d0) == Let([d \in {d0} |-> Dec(~d.neg, d.mag, d.exp)])

DecAdd(a0, b0) ==
    Let([a \in {a0}, b \in {b0} |->
    Let([e \in {IF a.exp < b.exp THEN a.exp ELSE b.exp} |->
    Let([am \in {DecMagAt(a, e)}, bm \in {DecMagAt(b, e)} |->
        IF a.neg = b.neg THEN Dec(a.neg, MagAdd(am, bm), e)
        ELSE IF MagCmp(am, bm) >= 0 THEN Dec(a.neg, MagSub(am, bm), e)
        ELSE Dec(b.neg, MagSub(bm, am), e)])])])

DecSub(a, b) == DecAdd(a, DecNeg(b))

DecMul(a0, b0) ==
    Let([a \in {a0}, b \in {b0} |->
        Dec(a.neg # b.neg, MagMul(a.mag, b.mag), a.exp + b.exp)])

\* Decimal.QuoRem(d2, precision), d2 # 0: the quotient truncated toward zero
\* at `precision` fractional digits and the remainder d - d2 * q.
DecQuoRem(d0, d20, precision) ==
    Let([d \in {d0}, d2 \in {d20}, scale \in {-precision} |->
    Let([e \in {d.exp - d2.exp - scale} |->
    Let([qr \in {MagDivMod(IF e < 0 THEN d.mag ELSE MagShift(d.mag, e),
                           IF e < 0 THEN MagShift(d2.mag, -e) ELSE d2.mag)} |->
        [q |-> Dec(d.neg # d2.neg, qr.q, scale),
         r |-> Dec(d.neg, qr.r, IF e < 0 THEN d.exp ELSE scale + d2.exp)]])])])

\* Decimal.Truncate(0).
DecTruncate(d0) == Let([d \in {d0} |-> IF d.exp < 0 THEN DecRescale(d, 0) ELSE d])

\* Decimal.Round(places): to the nearest multiple of 10^-places, halves away
\* from zero.
DecRound(d0, places) ==
    Let([d \in {d0} |->
        IF d.exp >= -places THEN d
        ELSE Let([h \in {MagAdd(DecRescale(d, -places - 1).mag, <<5>>)} |->
                 Dec(d.neg, SubSeq(h, 2, Len(h)), -places)])])

\* The number of digits of the integer part of d.
DecIntegerDigits(d) ==
    IF Len(d.mag) + d.exp > 0 THEN Len(d.mag) + d.exp ELSE 0

(***************************************************************************)
(* ast.DataType: an ordinal composed of a major (the category) and a minor *)
(* (width, length or precision within the category).                       *)
(***************************************************************************)
DataTypeMajorPending == 0
DataTypeMajorSpecial == 1
DataTypeMajorBool == 2
DataTypeMajorAddress == 3
DataTypeMajorInt == 4
DataTypeMajorUint == 5
DataTypeMajorFixedBytes == 6
DataTypeMajorDynamicBytes == 7
\* Fixed and Ufixed each span 32 majors: the major is offset by byte width - 1.
DataTypeMajorFixed == 16
DataTypeMajorUfixed == 48
DataTypeMinorDontCare == 0

ComposeDataType(major, minor) == major * 256 + minor

DecomposeDataType(dt) == [major |-> dt \div 256, minor |-> dt % 256]

MajorOf(dt) == DecomposeDataType(dt).major
MinorOf(dt) == DecomposeDataType(dt).minor

DataTypePending == ComposeDataType(DataTypeMajorPending, DataTypeMinorDontCare)
DataTypeNull == ComposeDataType(DataTypeMajorSpecial, DataTypeMinorDontCare)
DataTypeBad == 65535
DataTypeBool == ComposeDataType(DataTypeMajorBool, DataTypeMinorDontCare)
DataTypeAddress == ComposeDataType(DataTypeMajorAddress, DataTypeMinorDontCare)

IsFixedRange(major) == major \in DataTypeMajorFixed..(DataTypeMajorFixed + 31)
IsUfixedRange(major) == major \in DataTypeMajorUfixed..(DataTypeMajorUfixed + 31)

\* DataType.Pending.
Pending(dt) == dt = DataTypePending

\* 256^k for k = 0..32.
Pow256Table ==
    <<<<1>>,
      <<6, 5, 2>>,
      <<6, 3, 5, 5, 6>>,
      <<6, 1, 2, 7, 7, 7, 6, 1>>,
      <<6, 9, 2, 7, 6, 9, 4, 9, 2, 4>>,
      <<6, 7, 7, 7, 2, 6, 1, 1, 5, 9, 9, 0, 1>>,
      <<6, 5, 6, 0, 1, 7, 6, 7, 9, 4, 7, 4, 1, 8, 2>>,
      <<6, 3, 9, 7, 2, 9, 7, 3, 0, 4, 9, 5, 7, 5, 0, 2, 7>>,
      <<6, 1, 6, 1, 5, 5, 9, 0, 7, 3, 7, 0, 4, 4, 7, 6, 4, 4, 8, 1>>,
      <<6, 9, 6, 3, 1, 2, 5, 4, 6, 9, 6, 8, 2, 8, 4, 6, 6, 3, 2, 2, 7, 4>>,
      <<6, 7, 1, 6, 0, 7, 4, 7, 1, 9, 2, 6, 4, 1, 6, 9, 1, 8, 5, 2, 9, 8, 0, 2, 1>>,
      <<6, 5, 0, 1, 8, 7, 4, 2, 7, 8, 6, 0, 5, 4, 3, 1, 2, 8, 9, 0, 0, 5, 8, 4, 9, 0, 3>>,
      <<6, 3, 3, 0, 5, 9, 3, 4, 5, 3, 9, 5, 7, 3, 3, 4, 6, 2, 4, 1, 5, 2, 6, 1, 8, 2, 2, 9, 7>>,
      <<6, 1, 0, 6, 8, 2, 1, 5, 2, 7, 4, 9, 3, 2, 4, 0, 7, 6, 1, 5, 6, 3, 0, 6, 9, 0, 4, 2, 8, 2, 0, 2>>,
      <<6, 9, 0, 0, 2, 2, 9, 2, 3, 6, 9, 4, 0, 3, 5, 8, 2, 6, 7, 2, 8, 4, 3, 5, 8, 5, 8, 6, 9, 2, 2, 9, 1, 5>>,
      <<6, 7, 5, 4, 4, 3, 0, 8, 2, 0, 6, 0, 7, 0, 8, 3, 0, 9, 2, 7, 8, 5, 1, 9, 4, 8, 7, 5, 9, 9, 7, 2, 2, 9, 2, 3, 1>>,
      <<6, 5, 4, 1, 1, 2, 8, 6, 7, 1, 3, 4, 7, 0, 6, 4, 7, 3, 3, 6, 4, 3, 6, 4, 8, 3, 9, 0, 2, 9, 6, 6, 3, 2, 8, 2, 0, 4, 3>>,
      <<6, 3, 7, 2, 3, 1, 2, 6, 6, 2, 3, 5, 2, 0, 5, 9, 9, 8, 3, 2, 6, 6, 4, 6, 6, 4, 2, 0, 6, 7, 1, 3, 9, 5, 8, 2, 2, 1, 1, 7, 8>>,
      <<6, 1, 4, 0, 8, 9, 5, 0, 5, 1, 6, 3, 8, 4, 6, 2, 7, 2, 8, 1, 7, 5, 3, 5, 1, 4, 1, 3, 2, 6, 0, 3, 5, 8, 9, 1, 5, 4, 7, 0, 0, 3, 2, 2>>,
      <<6, 9, 4, 6, 8, 9, 0, 3, 5, 5, 4, 5, 0, 8, 9, 7, 9, 7, 7, 7, 8, 3, 4, 1, 3, 3, 2, 4, 2, 5, 9, 3, 8, 3, 2, 8, 0, 7, 7, 0, 9, 9, 8, 0, 7, 5>>,
      <<6, 7, 9, 2, 4, 5, 2, 3, 9, 5, 5, 6, 9, 1, 0, 3, 8, 2, 6, 1, 7, 2, 3, 8, 4, 8, 6, 3, 0, 2, 8, 1, 9, 2, 0, 9, 0, 3, 3, 7, 3, 6, 1, 0, 5, 1, 6, 4, 1>>,
      <<6, 5, 8, 1, 0, 0, 1, 3, 7, 8, 1, 9, 1, 3, 0, 3, 5, 4, 8, 6, 3, 5, 7, 1, 7, 1, 3, 3, 4, 1, 0, 6, 0, 7, 4, 1, 1, 1, 7, 6, 5, 1, 9, 1, 4, 4, 4, 1, 4, 7, 3>>,
      <<6, 3, 1, 5, 7, 4, 6, 3, 1, 5, 9, 1, 1, 7, 1, 6, 7, 9, 3, 2, 3, 4, 9, 8, 6, 9, 1, 9, 8, 6, 6, 9, 3, 7, 4, 6, 3, 5, 0, 8, 1, 1, 4, 0, 3, 1, 7, 9, 0, 8, 7, 5, 9>>,
      <<6, 1, 8, 4, 3, 6, 7, 3, 9, 4, 5, 9, 5, 2, 8, 9, 9, 8, 7, 3, 9, 6, 4, 9, 4, 0, 4, 4, 3, 4, 2, 5, 5, 3, 3, 7, 3, 3, 7, 1, 2, 2, 4, 5, 8, 3, 5, 6, 8, 2, 9, 9, 1, 5, 4, 2>>,
      <<6, 9, 8, 2, 1, 5, 4, 3, 0, 4, 6, 4, 4, 4, 4, 5, 5, 3, 2, 0, 1, 6, 1, 4, 6, 6, 6, 7, 0, 2, 3, 2, 4, 9, 8, 7, 5, 3, 8, 3, 6, 7, 0, 8, 6, 6, 8, 3, 5, 3, 7, 1, 0, 1, 7, 7, 2, 6>>,
      <<6, 7, 3, 1, 0, 3, 5, 3, 8, 2, 9, 7, 2, 8, 7, 3, 9, 9, 2, 0, 2, 2, 2, 5, 2, 0, 6, 2, 6, 1, 1, 4, 3, 2, 9, 0, 2, 6, 9, 1, 4, 5, 5, 7, 2, 0, 9, 9, 8, 5, 2, 4, 4, 0, 8, 3, 9, 6, 0, 6, 1>>,
      <<6, 5, 2, 2, 5, 1, 7, 3, 8, 5, 6, 9, 4, 9, 3, 8, 0, 4, 6, 6, 9, 3, 8, 6, 5, 4, 2, 6, 2, 6, 7, 3, 3, 9, 3, 6, 5, 9, 2, 2, 4, 7, 8, 3, 5, 0, 1, 5, 1, 0, 3, 0, 3, 3, 9, 3, 1, 6, 7, 3, 1, 1, 4>>,
      <<6, 3, 5, 7, 7, 9, 0, 1, 3, 4, 5, 2, 1, 1, 1, 9, 4, 5, 0, 0, 4, 5, 9, 0, 5, 9, 8, 8, 1, 3, 2, 3, 4, 0, 7, 6, 3, 8, 6, 7, 2, 0, 8, 1, 9, 7, 9, 6, 6, 8, 1, 7, 5, 5, 8, 6, 6, 1, 9, 2, 2, 1, 3, 5, 0, 1>>,
      <<6, 1, 2, 9, 4, 2, 0, 1, 6, 3, 0, 1, 1, 8, 4, 2, 7, 5, 0, 4, 5, 2, 2, 4, 4, 4, 1, 7, 3, 6, 3, 7, 6, 0, 3, 6, 9, 1, 0, 7, 8, 0, 5, 1, 0, 7, 6, 6, 4, 9, 7, 9, 3, 6, 0, 5, 1, 7, 6, 6, 6, 4, 9, 9, 5, 9, 6, 2>>,
      <<6, 9, 2, 9, 9, 7, 3, 2, 2, 4, 2, 5, 2, 6, 1, 5, 5, 5, 6, 8, 3, 0, 7, 1, 2, 7, 9, 8, 0, 1, 1, 5, 4, 2, 5, 4, 5, 2, 0, 7, 7, 2, 2, 6, 8, 5, 5, 7, 4, 3, 4, 7, 8, 7, 3, 6, 5, 0, 9, 7, 6, 4, 3, 6, 4, 7, 1, 0, 9, 6>>,
      <<6, 7, 7, 9, 1, 6, 2, 9, 2, 1, 0, 2, 6, 0, 6, 1, 2, 1, 8, 5, 9, 8, 1, 6, 5, 7, 8, 6, 9, 8, 3, 8, 4, 7, 2, 8, 5, 1, 5, 8, 1, 9, 2, 4, 7, 0, 0, 5, 7, 9, 2, 3, 8, 5, 9, 2, 3, 4, 8, 3, 8, 7, 7, 4, 6, 0, 7, 4, 8, 6, 6, 7, 1>>,
      <<6, 5, 6, 2, 6, 6, 0, 1, 9, 0, 3, 5, 7, 8, 1, 1, 3, 1, 9, 7, 2, 3, 5, 4, 8, 5, 1, 0, 0, 6, 7, 7, 8, 5, 3, 8, 1, 5, 0, 0, 4, 1, 7, 8, 1, 0, 9, 1, 0, 6, 1, 4, 2, 3, 3, 7, 3, 8, 8, 3, 6, 6, 2, 3, 8, 5, 8, 4, 8, 2, 1, 3, 2, 5, 4>>,
      <<6, 3, 9, 9, 3, 6, 9, 2, 1, 3, 1, 9, 7, 0, 0, 4, 8, 5, 7, 5, 4, 9, 3, 0, 4, 6, 5, 0, 4, 6, 5, 6, 6, 4, 8, 9, 9, 6, 2, 3, 5, 8, 7, 0, 9, 7, 8, 6, 8, 0, 0, 5, 8, 9, 0, 7, 5, 3, 2, 4, 5, 9, 1, 6, 1, 3, 7, 3, 2, 9, 8, 0, 2, 9, 7, 5, 1, 1>>>>

\* 2^n for 0 <= n <= 256.
Pow2(n) == MagMulSmall(Pow256Table[(n \div 8) + 1], 2 ^ (n % 8))

\* The shape of a numeric type: signedness, width in bits, fractional digits.
NumShape(dt) ==
    LET major == MajorOf(dt)
        minor == MinorOf(dt)
    IN  CASE major = DataTypeMajorInt -> [signed |-> TRUE, bits |-> 8 * (minor + 1), digits |-> 0]
          [] major = DataTypeMajorUint -> [signed |-> FALSE, bits |-> 8 * (minor + 1), digits |-> 0]
          [] IsFixedRange(major) ->
                [signed |-> TRUE, bits |-> 8 * (major - DataTypeMajorFixed + 1), digits |-> minor]
          [] IsUfixedRange(major) ->
                [signed |-> FALSE, bits |-> 8 * (major - DataTypeMajorUfixed + 1), digits |-> minor]

\* DataType.GetMinMax for the numeric types.
GetMinMax(dt) ==
    Let([t \in {NumShape(dt)} |->
        IF t.signed
        THEN Let([p \in {Pow2(t.bits - 1)} |->
                 [min |-> Dec(TRUE, p, -t.digits),
                  max |-> Dec(FALSE, MagSub(p, <<1>>), -t.digits)]])
        ELSE [min |-> Dec(FALSE, <<>>, -t.digits),
              max |-> Dec(FALSE, MagSub(Pow2(t.bits), <<1>>), -t.digits)]])

\* m divided by 256^n: the quotient and the n remainder bytes, big-endian.
RECURSIVE MagDivBytes(_, _)
MagDivBytes(m, n) ==
    IF n = 0 THEN [q |-> m, b |-> <<>>]
    ELSE IF n = 1
    THEN Let([qr \in {MagDivSmall(m, 256)} |-> [q |-> qr.q, b |-> <<qr.r>>]])
    ELSE Let([L \in {MagDivBytes(m, n \div 2)} |->
         Let([H \in {MagDivBytes(L.q, n - n \div 2)} |->
             [q |-> H.q, b |-> H.b \o L.b]])])

\* The low n bytes of m, big-endian.
MagToBytes(m, n) == MagDivBytes(m, n).b

\* The two's complement of big-endian bytes b: every byte inverted, plus one.
BytesNegate(b) ==
    [i \in 1..Len(b) |->
        IF \A j \in (i + 1)..Len(b) : b[j] = 0
        THEN (256 - b[i]) % 256
        ELSE 255 - b[i]]

\* The natural number that big-endian bytes b spell.
RECURSIVE MagFromBytes(_)
MagFromBytes(b0) ==
    Let([b \in {b0} |->
        IF Len(b) = 1 THEN MagOfNat(b[1])
        ELSE Let([h \in {Len(b) \div 2} |->
             Let([hi \in {MagFromBytes(SubSeq(b, 1, Len(b) - h))},
                  lo \in {MagFromBytes(SubSeq(b, Len(b) - h + 1, Len(b)))} |->
                 IF hi = <<>> THEN lo ELSE MagAdd(MagMul(hi, Pow2(8 * h)), lo)])])])

\* ast.DecimalEncode: the two's complement bytes, at the width of dt, of d
\* scaled by the fractional digits of dt and truncated to an integer.
DecimalEncode(dt, d) ==
    Let([t \in {NumShape(dt)} |->
    Let([v \in {DecRescale(d, -t.digits)} |->
    Let([b \in {MagToBytes(v.mag, t.bits \div 8)} |->
        IF v.neg THEN BytesNegate(b) ELSE b])])])

\* ast.DecimalDecode: the value whose encoding at dt is b.
DecimalDecode(dt, b) ==
    Let([t \in {NumShape(dt)}, m \in {MagFromBytes(b)} |->
        IF t.signed /\ MagCmp(m, Pow2(t.bits - 1)) >= 0
        THEN Dec(TRUE, MagSub(Pow2(t.bits), m), -t.digits)
        ELSE Dec(FALSE, m, -t.digits)])

(***************************************************************************)
(* Helpers of the checker package that work on decimals.                   *)
(***************************************************************************)
MaxIntegerPartDigits == 200

MaxFractionalPartDigits == 200

\* The number of zero digits at the low end of a.
MagTrailingZeros(a) ==
    IF a = <<>> THEN 0
    ELSE IF a[1] # 0 THEN 0
    ELSE (CHOOSE i \in DOMAIN a : a[i] # 0 /\ \A j \in 1..(i - 1) : a[j] = 0) - 1

\* normalizeDecimal: the same value without trailing fractional zeros.
normalizeDecimal(d0) ==
    Let([d \in {d0} |->
        IF d.mag = <<>> THEN DecZero
        ELSE IF d.exp >= 0 THEN Dec(d.neg, MagShift(d.mag, d.exp), 0)
        ELSE Let([tz \in {MagTrailingZeros(d.mag)} |->
             Let([k \in {IF tz < -d.exp THEN tz ELSE -d.exp} |->
                 Dec(d.neg, SubSeq(d.mag, k + 1, Len(d.mag)), d.exp + k)])])])

\* safeDecimalRange: the constant has no more digits than the checker keeps.
safeDecimalRange(d) ==
    /\ DecIntegerDigits(d) <= MaxIntegerPartDigits
    /\ -d.exp <= MaxFractionalPartDigits

mustGetMinMax(dt) == GetMinMax(dt)

mustDecimalEncode(dt, d) == DecimalEncode(dt, d)

mustDecimalDecode(dt, b) == DecimalDecode(dt, b)

\* cropDecimal: encode at dt and decode again.
cropDecimal(dt, d) == mustDecimalDecode(dt, mustDecimalEncode(dt, d))

(***************************************************************************)
(* ast.BoolValue: three-valued logic.  The zero value is not Valid.        *)
(***************************************************************************)
BoolValueTrue == 1

BoolValueFalse == 2

BoolValueUnknown == 3

BoolValueValid(v) == v \in {BoolValueTrue, BoolValueFalse, BoolValueUnknown}

BoolValueAnd(v, v2) ==
    IF v = BoolValueFalse \/ v2 = BoolValueFalse THEN BoolValueFalse
    ELSE IF v = BoolValueTrue /\ v2 = BoolValueTrue THEN BoolValueTrue
    ELSE BoolValueUnknown

BoolValueOr(v, v2) ==
    IF v = BoolValueTrue \/ v2 = BoolValueTrue THEN BoolValueTrue
    ELSE IF v = BoolValueFalse /\ v2 = BoolValueFalse THEN BoolValueFalse
    ELSE BoolValueUnknown

BoolValueNot(v) ==
    IF v = BoolValueTrue THEN BoolValueFalse
    ELSE IF v = BoolValueFalse THEN BoolValueTrue
    ELSE BoolValueUnknown

NewBoolValueFromBool(b) == IF b THEN BoolValueTrue ELSE BoolValueFalse

(***************************************************************************)
(* CheckOptions (bit flags) and type actions.                              *)
(***************************************************************************)
CheckWithSafeMath == 1

CheckWithSafeCast == 2

CheckWithConstantOnly == 4

HasOption(o, flag) == (o \div flag) % 2 = 1

TaNil == [k |-> "nil", size |-> 0, major |-> 0, dt |-> 0]

newTypeActionInferDefault == [k |-> "InferDefault", size |-> 0, major |-> 0, dt |-> 0]

newTypeActionInferWithSize(size) == [k |-> "InferWithSize", size |-> size, major |-> 0, dt |-> 0]

newTypeActionInferWithMajor(major) == [k |-> "InferWithMajor", size |-> 0, major |-> major, dt |-> 0]

newTypeActionAssign(dt) == [k |-> "Assign", size |-> 0, major |-> 0, dt |-> dt]

(***************************************************************************)
(* Nodes.  A node is a record; the heap is the sequence of all nodes and a *)
(* node id is an index into it.  Nil is the nil interface value.           *)
(***************************************************************************)
Nil == 0

\* What checkExpr "returns" when the Go recursion never ends.
StackOverflow == -1

\* What checkExpr "returns" when the Go code panics.
Panic == -2

ValueKinds ==
    {"BoolValue", "AddressValue", "IntegerValue", "DecimalValue", "BytesValue", "NullValue"}

BoolOperatorKinds ==
    {"NotOperator", "AndOperator", "OrOperator", "GreaterOrEqualOperator",
     "LessOrEqualOperator", "NotEqualOperator", "EqualOperator", "GreaterOperator",
     "LessOperator", "IsOperator", "LikeOperator", "InOperator"}

\* ast.Valuer: the node is a constant.
IsValuer(n) == n.kind \in ValueKinds

Node(kind, type, V, kids) ==
    [kind |-> kind, pos |-> 0, len |-> 0, tok |-> 0, type |-> type, V |-> V,
     IsAddress |-> FALSE, kids |-> kids]

RECURSIVE GetType(_, _)
\* ExprNode.GetType: nodes of one type only answer it, the others carry a tag.
GetType(h, id) ==
    LET n == h[id]
    IN  IF n.kind = "BoolValue" \/ n.kind \in BoolOperatorKinds THEN DataTypeBool
        ELSE IF n.kind = "AddressValue" THEN DataTypeAddress
        ELSE IF n.kind \in {"PosOperator", "ParenOperator"} THEN GetType(h, n.kids[1])
        ELSE n.type

\* ExprNode.SetType: a no-op on the nodes of one type only.
SetType(h, id, dt) ==
    IF h[id].kind = "BoolValue" \/ h[id].kind \in BoolOperatorKinds
       \/ h[id].kind \in {"AddressValue", "PosOperator", "ParenOperator"}
    THEN h
    ELSE [h EXCEPT ![id].type = dt]

\* A new node that takes position, length and token from node n.
NodeAt(n, kind, type, V) ==
    [kind |-> kind, pos |-> n.pos, len |-> n.len, tok |-> n.tok, type |-> type,
     V |-> V, IsAddress |-> FALSE, kids |-> <<>>]

(***************************************************************************)
(* errors.ErrorList: diagnostics are only ever appended.                   *)
(***************************************************************************)
Error(n, category, code, severity, fn) ==
    [pos |-> n.pos, len |-> n.len, cat |-> category, code |-> code,
     sev |-> severity, fn |-> fn]

\* The result of a check function: the node returned (or Nil), the heap and
\* the error list after the call.
Result(r, h, e) == [r |-> r, h |-> h, el |-> e]

elAppendTypeErrorAssignDataType(e, n, fn) ==
    Append(e, Error(n, "Semantic", "TypeError", "Error", fn))

elAppendTypeErrorAssignValueNode(e, n, fn) ==
    Append(e, Error(n, "Semantic", "TypeError", "Error", fn))

elAppendConstantTooLongError(e, n, fn) ==
    Append(e, Error(n, "Semantic", "ConstantTooLong", "Error", fn))

elAppendOverflowError(e, n, fn) ==
    Append(Append(e, Error(n, "Semantic", "Overflow", "Error", fn)),
           Error(n, "", "", "Note", fn))

\* elAppendOverflowWarning with the list replaced instead of appended to.
elAppendOverflowWarningAlone(e, n, fn) ==
    <<Error(n, "", "", "Warning", fn)>>

elAppendOverflowWarning(e, n, fn) ==
    Append(e, Error(n, "", "", "Warning", fn))

elAppendTypeErrorOperatorValueNode(e, n, fn) ==
    Append(e, Error(n, "Semantic", "TypeError", "Error", fn))

elAppendTypeErrorOperatorDataType(e, n, fn) ==
    Append(e, Error(n, "Semantic", "TypeError", "Error", fn))

(***************************************************************************)
(* The check functions.  Each takes the heap h, the error list e, the id n *)
(* of the node to check, the options o and the type action ta, and gives   *)
(* Result(r, h', e').                                                       *)
(***************************************************************************)
RECURSIVE checkExpr(_, _, _, _, _)

\* verifyTypeAction taking every type action for a hint.
verifyTypeActionNotMandatory(h, e, n, fn, dt, ta) == Result(n, h, e)

\* verifyTypeAction: a mandatory type action must name the type dt.
verifyTypeAction(h, e, n, fn, dt, ta) ==
    IF ta.k = "Assign" /\ dt # ta.dt
    THEN Result(Nil, h, elAppendTypeErrorAssignDataType(e, h[n], fn))
    ELSE Result(n, h, e)

checkBoolValue(h, e, n, o, ta) ==
    IF ta.k = "Assign" /\ MajorOf(ta.dt) # DataTypeMajorBool
    THEN Result(Nil, h, elAppendTypeErrorAssignValueNode(e, h[n], "CheckBoolValue"))
    ELSE Result(n, h, e)

checkAddressValue(h, e, n, o, ta) ==
    IF ta.k = "Assign" /\ MajorOf(ta.dt) # DataTypeMajorAddress
    THEN Result(Nil, h, elAppendTypeErrorAssignValueNode(e, h[n], "CheckAddressValue"))
    ELSE Result(n, h, e)

\* OverflowCheck without the test of CheckWithSafeMath.
OverflowCheckAlwaysCrops(e, node, fn, o, dt, v, low, high) ==
    IF low \/ high
    THEN [ok |-> TRUE, v |-> normalizeDecimal(cropDecimal(dt, v)),
          el |-> elAppendOverflowWarning(e, node, fn)]
    ELSE [ok |-> TRUE, v |-> v, el |-> e]

\* What range checking does with value v at type dt: ok = FALSE stops the
\* check; otherwise v is the value to keep (cropped when out of range).
OverflowCheck(e, node, fn, o, dt, v, low, high) ==
    IF low \/ high
    THEN IF HasOption(o, CheckWithSafeMath)
         THEN [ok |-> FALSE, v |-> v, el |-> elAppendOverflowError(e, node, fn)]
         ELSE [ok |-> TRUE, v |-> normalizeDecimal(cropDecimal(dt, v)),
               el |-> elAppendOverflowWarning(e, node, fn)]
    ELSE [ok |-> TRUE, v |-> v, el |-> e]

\* The closure infer of checkIntegerValue without its second case: the
\* signed type for every value.
checkIntegerValueInferSigned(h, e, n, o, size) ==
    [dt |-> ComposeDataType(DataTypeMajorInt, size - 1), ok |-> TRUE, h |-> h, el |-> e]

\* The closure infer of checkIntegerValue: int<size*8> if V fits or is
\* negative, else uint<size*8>.
checkIntegerValueInfer(h, e, n, o, size) ==
    LET fn == "CheckIntegerValue"
        dtInt == ComposeDataType(DataTypeMajorInt, size - 1)
        dtUint == ComposeDataType(DataTypeMajorUint, size - 1)
    IN  Let([v \in {h[n].V}, mm \in {mustGetMinMax(dtInt)} |->
            IF DecLessThan(v, mm.min)
            THEN Let([c \in {OverflowCheck(e, h[n], fn, o, dtInt, v, TRUE, FALSE)} |->
                     [dt |-> dtInt, ok |-> c.ok, h |-> [h EXCEPT ![n].V = c.v], el |-> c.el]])
            ELSE IF ~DecGreaterThan(v, mm.max)
            THEN [dt |-> dtInt, ok |-> TRUE, h |-> h, el |-> e]
            ELSE Let([c \in {OverflowCheck(e, h[n], fn, o, dtUint, v, FALSE,
                                           DecGreaterThan(v, mustGetMinMax(dtUint).max))} |->
                     [dt |-> dtUint, ok |-> c.ok, h |-> [h EXCEPT ![n].V = c.v],
                      el |-> c.el]])])

\* The type action checkIntegerValue executes after its goto for
\* typeActionInferWithMajor.
checkIntegerValueAction(ta) ==
    IF ta.k # "InferWithMajor" THEN ta
    ELSE IF ta.major = DataTypeMajorAddress
    THEN newTypeActionAssign(ComposeDataType(ta.major, DataTypeMinorDontCare))
    ELSE IF ta.major \in {DataTypeMajorInt, DataTypeMajorUint}
    THEN newTypeActionAssign(ComposeDataType(ta.major, 256 \div 8 - 1))
    ELSE IF ta.major \in {DataTypeMajorFixed, DataTypeMajorUfixed}
    THEN newTypeActionAssign(ComposeDataType(ta.major + (128 \div 8 - 1), 18))
    ELSE newTypeActionInferDefault

\* The end of checkIntegerValue, checkDecimalValue and checkBytesValue: the
\* node takes the type unless it is still pending.
SetTypeUnlessPending(h, n, dt) == IF Pending(dt) THEN h ELSE SetType(h, n, dt)

\* The case typeActionAssign of checkIntegerValue.
checkIntegerValueAssign(h, e, n, o, ta) ==
    LET fn == "CheckIntegerValue"
        dt == ta.dt
        major == MajorOf(ta.dt)
    IN  IF major = DataTypeMajorAddress
        THEN IF ~h[n].IsAddress
             THEN Result(Nil, h, Append(e, Error(h[n], "Semantic",
                                                 "InvalidAddressChecksum", "Error", fn)))
             ELSE Let([addrNode \in
                          {Node("AddressValue", DataTypePending,
                                mustDecimalEncode(
                                    ComposeDataType(DataTypeMajorUint, 160 \div 8 - 1),
                                    h[n].V),
                                <<>>)} |->
                      checkAddressValue(Append(h, addrNode), e, Len(h) + 1, o, ta)])
        ELSE IF major = DataTypeMajorInt \/ major = DataTypeMajorUint
                \/ IsFixedRange(major) \/ IsUfixedRange(major)
        THEN Let([mm \in {mustGetMinMax(dt)} |->
             Let([c \in {OverflowCheck(e, h[n], fn, o, dt, h[n].V,
                                       DecLessThan(h[n].V, mm.min),
                                       DecGreaterThan(h[n].V, mm.max))} |->
                 IF ~c.ok THEN Result(Nil, h, c.el)
                 ELSE Result(n, SetTypeUnlessPending([h EXCEPT ![n].V = c.v], n, dt),
                             c.el)])])
        ELSE Result(Nil, h, elAppendTypeErrorAssignValueNode(e, h[n], fn))

checkIntegerValue(h0, e, n, o, ta0) ==
    Let([h \in {[h0 EXCEPT ![n].V = normalizeDecimal(h0[n].V)]},
         ta \in {checkIntegerValueAction(ta0)} |->
        IF ~safeDecimalRange(h[n].V)
        THEN Result(Nil, h, elAppendConstantTooLongError(e, h[n], "CheckIntegerValue"))
        ELSE IF ta.k \in {"InferDefault", "InferWithSize"}
        THEN Let([i \in {checkIntegerValueInfer(
                             h, e, n, o,
                             IF ta.k = "InferDefault" THEN 256 \div 8 ELSE ta.size)} |->
                 IF ~i.ok THEN Result(Nil, i.h, i.el)
                 ELSE Result(n, SetTypeUnlessPending(i.h, n, i.dt), i.el)])
        ELSE IF ta.k = "Assign" THEN checkIntegerValueAssign(h, e, n, o, ta)
        ELSE Result(n, h, e)])

\* The closure infer of checkDecimalValue: fixed<size*8>x<digits> if V fits,
\* else ufixed.  Below the minimum it answers ok = FALSE in both modes.
checkDecimalValueInfer(h, e, n, o, size, fractionalDigits) ==
    LET fn == "CheckDecimalValue"
        dtFixed == ComposeDataType(DataTypeMajorFixed + (size - 1), fractionalDigits)
        dtUfixed == ComposeDataType(DataTypeMajorUfixed + (size - 1), fractionalDigits)
    IN  Let([v \in {h[n].V}, mm \in {mustGetMinMax(dtFixed)} |->
            IF DecLessThan(v, mm.min)
            THEN Let([c \in {OverflowCheck(e, h[n], fn, o, dtFixed, v, TRUE, FALSE)} |->
                     [dt |-> dtFixed, ok |-> FALSE, h |-> [h EXCEPT ![n].V = c.v],
                      el |-> c.el]])
            ELSE IF ~DecGreaterThan(v, mm.max)
            THEN [dt |-> dtFixed, ok |-> TRUE, h |-> h, el |-> e]
            ELSE Let([c \in {OverflowCheck(e, h[n], fn, o, dtUfixed, v, FALSE,
                                           DecGreaterThan(v, mustGetMinMax(dtUfixed).max))} |->
                     [dt |-> dtUfixed, ok |-> c.ok, h |-> [h EXCEPT ![n].V = c.v],
                      el |-> c.el]])])

\* The type action checkDecimalValue executes after its goto for
\* typeActionInferWithMajor.
checkDecimalValueAction(ta) ==
    IF ta.k # "InferWithMajor" THEN ta
    ELSE IF ta.major \in {DataTypeMajorFixed, DataTypeMajorUfixed}
    THEN newTypeActionAssign(ComposeDataType(ta.major + (128 \div 8 - 1), 18))
    ELSE IF ta.major \in {DataTypeMajorInt, DataTypeMajorUint}
    THEN newTypeActionAssign(ComposeDataType(ta.major, 256 \div 8 - 1))
    ELSE newTypeActionInferDefault

\* The end of checkDecimalValue: the node takes the type and its value is
\* rounded to the fractional digits of the type.
checkDecimalValueFinish(h, n, dt) ==
    IF Pending(dt) THEN h
    ELSE [SetType(h, n, dt) EXCEPT ![n].V = normalizeDecimal(DecRound(h[n].V, MinorOf(dt)))]

\* The case typeActionAssign of checkDecimalValue.
checkDecimalValueAssign(h, e, n, o, ta) ==
    LET fn == "CheckDecimalValue"
        dt == ta.dt
        major == MajorOf(ta.dt)
    IN  IF IsFixedRange(major) \/ IsUfixedRange(major)
        THEN Let([mm \in {mustGetMinMax(dt)} |->
             Let([c \in {OverflowCheck(e, h[n], fn, o, dt, h[n].V,
                                       DecLessThan(h[n].V, mm.min),
                                       DecGreaterThan(h[n].V, mm.max))} |->
                 IF ~c.ok THEN Result(Nil, h, c.el)
                 ELSE Result(n, checkDecimalValueFinish([h EXCEPT ![n].V = c.v], n, dt),
                             c.el)])])
        ELSE IF major = DataTypeMajorInt \/ major = DataTypeMajorUint
        THEN Result(Nil, h, Append(e, Error(h[n], "Semantic", "TypeError", "Error", fn)))
        ELSE Result(Nil, h, elAppendTypeErrorAssignValueNode(e, h[n], fn))

checkDecimalValue(h0, e, n, o, ta0) ==
    Let([h \in {[h0 EXCEPT ![n].V = normalizeDecimal(h0[n].V)]},
         ta \in {checkDecimalValueAction(ta0)} |->
        IF ~safeDecimalRange(h[n].V)
        THEN Result(Nil, h, elAppendConstantTooLongError(e, h[n], "CheckDecimalValue"))
        ELSE IF DecEqual(h[n].V, DecTruncate(h[n].V))
        THEN Let([intNode \in {[NodeAt(h[n], "IntegerValue", GetType(h, n), h[n].V)
                                   EXCEPT !.IsAddress = FALSE]} |->
                 checkIntegerValue(Append(h, intNode), e, Len(h) + 1, o, ta0)])
        ELSE IF ta.k \in {"InferDefault", "InferWithSize"}
        THEN Let([i \in {checkDecimalValueInfer(h, e, n, o, 128 \div 8, 18)} |->
                 IF ~i.ok THEN Result(Nil, i.h, i.el)
                 ELSE Result(n, checkDecimalValueFinish(i.h, n, i.dt), i.el)])
        ELSE IF ta.k = "Assign" THEN checkDecimalValueAssign(h, e, n, o, ta)
        ELSE Result(n, h, e)])

\* checkBytesValueGoto with InferDefault rewritten to InferWithMajor of the
\* dynamically-sized bytes: one more jump.
checkBytesValueGotoByMajor(ta, size) ==
    IF ta.k = "InferDefault"
    THEN newTypeActionInferWithMajor(DataTypeMajorDynamicBytes)
    ELSE IF ta.k = "InferWithSize"
    THEN newTypeActionAssign(ComposeDataType(DataTypeMajorFixedBytes, ta.size - 1))
    ELSE IF ta.major \in {DataTypeMajorFixedBytes, DataTypeMajorDynamicBytes}
    THEN newTypeActionAssign(ComposeDataType(DataTypeMajorDynamicBytes, DataTypeMinorDontCare))
    ELSE newTypeActionInferDefault

\* One pass of checkBytesValue through a case of its switch that ends in
\* goto executeTypeAction: the type action the jump is made with; "fail" when
\* the constant cannot be taken as fixed-size bytes (no jump, nil is returned).
checkBytesValueGoto(ta, size) ==
    IF ta.k = "InferDefault"
    THEN newTypeActionAssign(ComposeDataType(DataTypeMajorDynamicBytes, DataTypeMinorDontCare))
    ELSE IF ta.k = "InferWithSize"
    THEN newTypeActionAssign(ComposeDataType(DataTypeMajorFixedBytes, ta.size - 1))
    ELSE IF ta.major = DataTypeMajorFixedBytes
    THEN IF size < 1 \/ size > 32 THEN [ta EXCEPT !.k = "fail"]
         ELSE newTypeActionAssign(ComposeDataType(ta.major, size))
    ELSE IF ta.major = DataTypeMajorDynamicBytes
    THEN newTypeActionAssign(ComposeDataType(ta.major, DataTypeMinorDontCare))
    ELSE newTypeActionInferDefault

\* The cases of the switch of checkBytesValue that end in a goto.
checkBytesValueJumps(ta) == ta.k \in {"InferDefault", "InferWithSize", "InferWithMajor"}

\* The type action checkBytesValue executes after its gotos.
RECURSIVE checkBytesValueAction(_, _)
checkBytesValueAction(ta, size) ==
    IF checkBytesValueJumps(ta)
    THEN checkBytesValueAction(checkBytesValueGoto(ta, size), size)
    ELSE ta

checkBytesValue(h, e, n, o, ta0) ==
    LET fn == "CheckBytesValue"
    IN  Let([ta \in {checkBytesValueAction(ta0, Len(h[n].V))} |->
            IF ta.k = "fail"
            THEN Result(Nil, h, Append(e, Error(h[n], "Semantic", "TypeError", "Error", fn)))
            ELSE IF ta.k = "Assign"
            THEN IF MajorOf(ta.dt) = DataTypeMajorDynamicBytes
                 THEN Result(n, SetTypeUnlessPending(h, n, ta.dt), e)
                 ELSE IF MajorOf(ta.dt) = DataTypeMajorFixedBytes
                 THEN IF Len(h[n].V) # MinorOf(ta.dt) + 1
                      THEN Result(Nil, h, Append(e, Error(h[n], "Semantic", "TypeError",
                                                         "Error", fn)))
                      ELSE Result(n, SetTypeUnlessPending(h, n, ta.dt), e)
                 ELSE Result(Nil, h, elAppendTypeErrorAssignValueNode(e, h[n], fn))
            ELSE Result(n, h, e)])

\* checkNullValue without its type action.
checkNullValueKeepsPending(h, e, n, o, ta) == Result(n, h, e)

checkNullValue(h, e, n, o, ta) ==
    LET dt == IF ta.k \in {"InferDefault", "InferWithSize", "InferWithMajor"}
              THEN DataTypeNull
              ELSE IF ta.k = "Assign" THEN ta.dt ELSE DataTypePending
    IN  Result(n, SetTypeUnlessPending(h, n, dt), e)

\* A check function that fails: nil, with the heap and the errors so far.
Fail(h, e) == Result(Nil, h, e)

\* A call that did not come back with a node: it returned nil, or the
\* recursion overflowed, or it panicked.
NoNode(c) == c.r = Nil \/ c.r = StackOverflow \/ c.r = Panic

\* delegateTypeAction: a pending type is left to the check function of the
\* node r about to be returned.  self is the operator node whose check
\* function is delegating and h0 the heap that check function was entered
\* with: re-entering it on the same node with the same heap, options and type
\* action repeats the same steps without end, and the Go stack overflows.
delegateTypeAction(h, e, r, fn, dt, o, ta, self, h0) ==
    IF ta # TaNil /\ Pending(dt)
    THEN IF r = self /\ h = h0 THEN Result(StackOverflow, h, e)
         ELSE checkExpr(h, e, r, o, ta)
    ELSE verifyTypeAction(h, e, r, fn, dt, ta)

checkChildrenForUnaryOperator(h, e, n, o) ==
    Let([c \in {checkExpr(h, e, h[n].kids[1], o, TaNil)} |->
        IF NoNode(c) THEN c
        ELSE Result(n, [c.h EXCEPT ![n].kids[1] = c.r], c.el)])

validateNumberType(e, node, fn, dt) ==
    IF ~Pending(dt)
       /\ ~(MajorOf(dt) = DataTypeMajorInt \/ MajorOf(dt) = DataTypeMajorUint
            \/ IsFixedRange(MajorOf(dt)) \/ IsUfixedRange(MajorOf(dt)))
    THEN [ok |-> FALSE, el |-> elAppendTypeErrorOperatorDataType(e, node, fn)]
    ELSE [ok |-> TRUE, el |-> e]

extractNumberValue(e, node, fn) ==
    IF node.kind = "IntegerValue" THEN [v |-> node.V, status |-> "Integer", el |-> e]
    ELSE IF node.kind = "DecimalValue" THEN [v |-> node.V, status |-> "Decimal", el |-> e]
    ELSE IF node.kind = "NullValue"
    THEN [v |-> DecZero,
          status |-> IF Pending(node.type) THEN "NullWithoutType" ELSE "NullWithType",
          el |-> e]
    ELSE [v |-> DecZero, status |-> "Error",
          el |-> elAppendTypeErrorOperatorValueNode(e, node, fn)]

\* The constant a unary + or - folds to: a new node at the operator's place.
FoldedNumberNode(opNode, status, v, dt) ==
    NodeAt(opNode,
           IF status = "Integer" THEN "IntegerValue"
           ELSE IF status = "Decimal" THEN "DecimalValue" ELSE "NullValue",
           dt,
           IF status = "NullWithType" THEN 0 ELSE v)

checkPosOperator(h0, e0, n, o, ta) ==
    Let([c \in {checkChildrenForUnaryOperator(h0, e0, n, o)} |->
        IF NoNode(c) THEN c
        ELSE LET fn == "CheckPosOperator"
                 h == c.h
                 target == c.h[n].kids[1]
             IN  Let([dt \in {GetType(c.h, c.h[n].kids[1])} |->
                 Let([t \in {validateNumberType(c.el, h[target], fn, dt)} |->
                     IF ~t.ok THEN Fail(h, t.el)
                     ELSE IF ~IsValuer(h[target])
                     THEN delegateTypeAction(h, t.el, target, fn, dt, o, ta, n, h0)
                     ELSE Let([x \in {extractNumberValue(t.el, h[target], fn)} |->
                              IF x.status = "Error" THEN Fail(h, x.el)
                              ELSE IF x.status = "NullWithoutType"
                              THEN Fail(h, elAppendTypeErrorOperatorValueNode(
                                               x.el, h[target], fn))
                              ELSE delegateTypeAction(
                                       Append(h, FoldedNumberNode(h[n], x.status, x.v, dt)),
                                       x.el, Len(h) + 1, fn, dt, o, ta, n, h0)])])])])

\* The closure calc of checkNegOperator: -v, range checked at dt.
checkNegOperatorCalc(e, opNode, fn, o, dt, v) ==
    Let([r \in {DecNeg(v)} |->
        IF Pending(dt) THEN [ok |-> TRUE, v |-> normalizeDecimal(r), el |-> e]
        ELSE Let([mm \in {mustGetMinMax(dt)} |->
             Let([c \in {OverflowCheck(e, opNode, fn, o, dt, r,
                                       DecLessThan(r, mm.min),
                                       DecGreaterThan(r, mm.max))} |->
                 [ok |-> c.ok, v |-> normalizeDecimal(c.v), el |-> c.el]])])])

checkNegOperator(h0, e0, n, o, ta) ==
    Let([c \in {checkChildrenForUnaryOperator(h0, e0, n, o)} |->
        IF NoNode(c) THEN c
        ELSE LET fn == "CheckNegOperator"
                 target == c.h[n].kids[1]
             IN  Let([dt \in {GetType(c.h, c.h[n].kids[1])} |->
                 Let([t \in {validateNumberType(c.el, c.h[target], fn, dt)},
                      h \in {SetType(c.h, n, dt)} |->
                     IF ~t.ok THEN Fail(c.h, t.el)
                     ELSE IF ~IsValuer(h[target])
                     THEN delegateTypeAction(h, t.el, n, fn, dt, o, ta, n, h0)
                     ELSE Let([x \in {extractNumberValue(t.el, h[target], fn)} |->
                          IF x.status = "Error" THEN Fail(h, x.el)
                          ELSE IF x.status = "NullWithoutType"
                          THEN Fail(h, elAppendTypeErrorOperatorValueNode(
                                           x.el, h[target], fn))
                          ELSE IF x.status = "NullWithType"
                          THEN delegateTypeAction(
                                   Append(h, FoldedNumberNode(h[n], x.status, x.v, dt)),
                                   x.el, Len(h) + 1, fn, dt, o, ta, n, h0)
                          ELSE Let([k \in {checkNegOperatorCalc(x.el, h[n], fn, o, dt,
                                                                x.v)} |->
                                   IF ~k.ok THEN Fail(h, k.el)
                                   ELSE delegateTypeAction(
                                            Append(h, FoldedNumberNode(h[n], x.status,
                                                                       k.v, dt)),
                                            k.el, Len(h) + 1, fn, dt, o, ta, n, h0)])])])])])

validateBoolType(e, node, fn, dt) ==
    IF ~Pending(dt) /\ MajorOf(dt) # DataTypeMajorBool
    THEN [ok |-> FALSE, el |-> elAppendTypeErrorOperatorDataType(e, node, fn)]
    ELSE [ok |-> TRUE, el |-> e]

extractBoolValue(e, node, fn) ==
    IF node.kind = "BoolValue" THEN [v |-> node.V, ok |-> TRUE, el |-> e]
    ELSE IF node.kind = "NullValue" THEN [v |-> BoolValueUnknown, ok |-> TRUE, el |-> e]
    ELSE [v |-> BoolValueUnknown, ok |-> FALSE,
          el |-> elAppendTypeErrorOperatorValueNode(e, node, fn)]

checkNotOperator(h0, e0, n, o, ta) ==
    Let([c \in {checkChildrenForUnaryOperator(h0, e0, n, o)} |->
        IF NoNode(c) THEN c
        ELSE LET fn == "CheckNotOperator"
                 h == c.h
                 target == c.h[n].kids[1]
                 dt == GetType(c.h, n)
             IN  Let([t \in {validateBoolType(c.el, h[target], fn, GetType(h, target))} |->
                     IF ~t.ok THEN Fail(h, t.el)
                     ELSE IF ~IsValuer(h[target])
                     THEN verifyTypeAction(h, t.el, n, fn, dt, ta)
                     ELSE Let([x \in {extractBoolValue(t.el, h[target], fn)} |->
                              IF ~x.ok THEN Fail(h, x.el)
                              ELSE verifyTypeAction(
                                       Append(h, NodeAt(h[n], "BoolValue", DataTypePending,
                                                        BoolValueNot(x.v))),
                                       x.el, Len(h) + 1, fn, dt, ta)])])])

checkParenOperator(h, e, n, o, ta) ==
    Let([c \in {checkExpr(h, e, h[n].kids[1], o, ta)} |->
        IF NoNode(c) THEN c
        ELSE Result(c.r, [c.h EXCEPT ![c.r].pos = h[n].pos, ![c.r].len = h[n].len,
                                     ![c.r].tok = h[n].tok], c.el)])

\* checkChildrenForBinaryOperator returning at the first operand that fails.
checkChildrenForBinaryOperatorUntilFailure(h, e, n, o) ==
    Let([c1 \in {checkExpr(h, e, h[n].kids[1], o, TaNil)} |->
        IF c1.r <= Nil THEN c1
        ELSE
        Let([c2 \in {checkExpr([c1.h EXCEPT ![n].kids[1] = c1.r], c1.el,
                               h[n].kids[2], o, TaNil)} |->
            IF c2.r <= Nil THEN c2
            ELSE Result(n, [c2.h EXCEPT ![n].kids[2] = c2.r], c2.el)])])


checkChildrenForBinaryOperator(h, e, n, o) ==
    Let([c1 \in {checkExpr(h, e, h[n].kids[1], o, TaNil)} |->
        IF c1.r = StackOverflow \/ c1.r = Panic THEN c1
        ELSE
        Let([h1 \in {IF c1.r # Nil THEN [c1.h EXCEPT ![n].kids[1] = c1.r] ELSE c1.h} |->
        Let([c2 \in {checkExpr(h1, c1.el, h1[n].kids[2], o, TaNil)} |->
            IF c2.r = StackOverflow \/ c2.r = Panic THEN c2
            ELSE
            Let([h2 \in {IF c2.r # Nil THEN [c2.h EXCEPT ![n].kids[2] = c2.r]
                         ELSE c2.h} |->
                IF c1.r = Nil \/ c2.r = Nil THEN Fail(h2, c2.el)
                ELSE Result(n, h2, c2.el)])])])])

\* The constant operands of AND and OR: a BoolValue each, or the zero value
\* (not Valid) for an operand that is not a constant.
ExtractBoolOperands(h, e, n, fn) ==
    LET object == h[h[n].kids[1]]
        subject == h[h[n].kids[2]]
    IN  Let([x1 \in {IF IsValuer(object) THEN extractBoolValue(e, object, fn)
                     ELSE [v |-> 0, ok |-> TRUE, el |-> e]} |->
            IF ~x1.ok THEN [ok |-> FALSE, v1 |-> 0, v2 |-> 0, el |-> x1.el]
            ELSE Let([x2 \in {IF IsValuer(subject)
                              THEN extractBoolValue(x1.el, subject, fn)
                              ELSE [v |-> 0, ok |-> TRUE, el |-> x1.el]} |->
                     [ok |-> x2.ok, v1 |-> x1.v, v2 |-> x2.v, el |-> x2.el]])])

\* The types of both operands of AND and OR must be boolean or pending.
ValidateBoolOperands(h, e, n, fn) ==
    LET object == h[n].kids[1]
        subject == h[n].kids[2]
    IN  Let([t1 \in {validateBoolType(e, h[object], fn, GetType(h, object))} |->
            IF ~t1.ok THEN t1
            ELSE validateBoolType(t1.el, h[subject], fn, GetType(h, subject))])

\* checkAndOperatorFold without the case of one constant False.
checkAndOperatorFoldBothValid(v1, v2) ==
    IF BoolValueValid(v1) /\ BoolValueValid(v2) THEN BoolValueAnd(v1, v2) ELSE 0

\* The value checkAndOperator folds to; 0 (not Valid) when it does not fold.
checkAndOperatorFold(v1, v2) ==
    IF BoolValueValid(v1) /\ BoolValueValid(v2) THEN BoolValueAnd(v1, v2)
    ELSE IF v1 = BoolValueFalse \/ v2 = BoolValueFalse THEN BoolValueFalse
    ELSE 0

checkAndOperator(h0, e0, n, o, ta) ==
    Let([c \in {checkChildrenForBinaryOperator(h0, e0, n, o)} |->
        IF NoNode(c) THEN c
        ELSE LET fn == "CheckAndOperator"
                 h == c.h
                 dt == GetType(c.h, n)
             IN  Let([t \in {ValidateBoolOperands(h, c.el, n, fn)} |->
                     IF ~t.ok THEN Fail(h, t.el)
                     ELSE Let([x \in {ExtractBoolOperands(h, t.el, n, fn)} |->
                          IF ~x.ok THEN Fail(h, x.el)
                          ELSE Let([vo \in {checkAndOperatorFold(x.v1, x.v2)} |->
                               IF BoolValueValid(vo)
                               THEN verifyTypeAction(
                                        Append(h, NodeAt(h[n], "BoolValue",
                                                         DataTypePending, vo)),
                                        x.el, Len(h) + 1, fn, dt, ta)
                               ELSE verifyTypeAction(h, x.el, n, fn, dt, ta)])])])])

\* The value checkOrOperator folds to; 0 (not Valid) when it does not fold.
checkOrOperatorFold(v1, v2) ==
    IF BoolValueValid(v1) /\ BoolValueValid(v2) THEN BoolValueOr(v1, v2)
    ELSE IF v1 = BoolValueTrue \/ v2 = BoolValueTrue THEN BoolValueTrue
    ELSE 0

checkOrOperator(h0, e0, n, o, ta) ==
    Let([c \in {checkChildrenForBinaryOperator(h0, e0, n, o)} |->
        IF NoNode(c) THEN c
        ELSE LET fn == "CheckOrOperator"
                 h == c.h
                 dt == GetType(c.h, n)
             IN  Let([t \in {ValidateBoolOperands(h, c.el, n, fn)} |->
                     IF ~t.ok THEN Fail(h, t.el)
                     ELSE Let([x \in {ExtractBoolOperands(h, t.el, n, fn)} |->
                          IF ~x.ok THEN Fail(h, x.el)
                          ELSE Let([vo \in {checkOrOperatorFold(x.v1, x.v2)} |->
                               IF ta.k = "Assign" /\ dt # ta.dt
                               THEN Fail(IF BoolValueValid(vo)
                                         THEN Append(h, NodeAt(h[n], "BoolValue",
                                                               DataTypePending, vo))
                                         ELSE h,
                                         elAppendTypeErrorAssignDataType(x.el, h[n], fn))
                               ELSE IF BoolValueValid(vo)
                               THEN verifyTypeAction(
                                        Append(h, NodeAt(h[n], "BoolValue",
                                                         DataTypePending, vo)),
                                        x.el, Len(h) + 1, fn, dt, ta)
                               ELSE verifyTypeAction(h, x.el, n, fn, dt, ta)])])])])

validateOrderedType(e, node, fn, dt) ==
    IF ~Pending(dt)
       /\ ~(MajorOf(dt) \in {DataTypeMajorBool, DataTypeMajorAddress, DataTypeMajorInt,
                             DataTypeMajorUint, DataTypeMajorFixedBytes,
                             DataTypeMajorDynamicBytes}
            \/ IsFixedRange(MajorOf(dt)) \/ IsFixedRange(MajorOf(dt)))
    THEN [ok |-> FALSE, el |-> elAppendTypeErrorOperatorDataType(e, node, fn)]
    ELSE [ok |-> TRUE, el |-> e]

elAppendTypeErrorOperandDataType(e, n, fn) ==
    Append(e, Error(n, "Semantic", "TypeError", "Error", fn))

\* inferBinaryOperatorType: both operand types must agree; an operand whose
\* type is pending is checked again and told the type of the other.
inferBinaryOperatorType(h, e, n, o, fn) ==
    LET object == h[n].kids[1]
        subject == h[n].kids[2]
    IN  Let([dtObject \in {GetType(h, h[n].kids[1])},
             dtSubject \in {GetType(h, h[n].kids[2])} |->
            IF ~Pending(dtObject) /\ ~Pending(dtSubject)
            THEN IF dtObject # dtSubject
                 THEN [dt |-> DataTypeBad, ok |-> FALSE, r |-> Nil, h |-> h,
                       el |-> elAppendTypeErrorOperandDataType(e, h[subject], fn)]
                 ELSE [dt |-> dtObject, ok |-> TRUE, r |-> n, h |-> h, el |-> e]
            ELSE IF ~Pending(dtObject)
            THEN Let([cs \in {checkExpr(h, e, subject, o, newTypeActionAssign(dtObject))} |->
                     IF NoNode(cs)
                     THEN [dt |-> DataTypeBad, ok |-> FALSE, r |-> cs.r, h |-> cs.h,
                           el |-> cs.el]
                     ELSE [dt |-> dtObject, ok |-> TRUE, r |-> n,
                           h |-> [cs.h EXCEPT ![n].kids[2] = cs.r], el |-> cs.el]])
            ELSE IF ~Pending(dtSubject)
            THEN Let([co \in {checkExpr(h, e, object, o, newTypeActionAssign(dtSubject))} |->
                     IF NoNode(co)
                     THEN [dt |-> DataTypeBad, ok |-> FALSE, r |-> co.r, h |-> co.h,
                           el |-> co.el]
                     ELSE [dt |-> dtSubject, ok |-> TRUE, r |-> n,
                           h |-> [co.h EXCEPT ![n].kids[1] = co.r], el |-> co.el]])
            ELSE [dt |-> DataTypePending, ok |-> TRUE, r |-> n, h |-> h, el |-> e]])

elAppendTypeErrorOperandValueNode(e, n, fn) ==
    Append(e, Error(n, "Semantic", "TypeError", "Error", fn))

compatibleValueNodes(expected, given) ==
    IF expected.kind = "BoolValue" THEN given.kind \in {"BoolValue", "NullValue"}
    ELSE IF expected.kind = "AddressValue" THEN given.kind \in {"AddressValue", "NullValue"}
    ELSE IF expected.kind \in {"IntegerValue", "DecimalValue"}
    THEN given.kind \in {"IntegerValue", "DecimalValue", "NullValue"}
    ELSE IF expected.kind = "BytesValue" THEN given.kind \in {"BytesValue", "NullValue"}
    ELSE TRUE

(***************************************************************************)
(* constantValue: a bool, bytes or decimal that may be null; the nil       *)
(* interface is the constant NULL before its kind is known.                *)
(***************************************************************************)
ConstantValue(k, v, null) == [k |-> k, v |-> v, null |-> null]

ConstantValueNil == ConstantValue("nil", 0, TRUE)

newConstantValueBoolFromNil == ConstantValue("bool", BoolValueUnknown, TRUE)

newConstantValueBytesFromNil == ConstantValue("bytes", <<>>, TRUE)

newConstantValueDecimalFromNil == ConstantValue("decimal", DecZero, TRUE)

extractConstantValue(node) ==
    IF node.kind = "BoolValue" THEN ConstantValue("bool", node.V, FALSE)
    ELSE IF node.kind \in {"AddressValue", "BytesValue"}
    THEN ConstantValue("bytes", node.V, FALSE)
    ELSE IF node.kind \in {"IntegerValue", "DecimalValue"}
    THEN ConstantValue("decimal", node.V, FALSE)
    ELSE ConstantValueNil

newNilConstantValue(v) ==
    IF v.k = "bool" THEN newConstantValueBoolFromNil
    ELSE IF v.k = "bytes" THEN newConstantValueBytesFromNil
    ELSE IF v.k = "decimal" THEN newConstantValueDecimalFromNil
    ELSE ConstantValueNil

\* bytes.Compare: -1, 0 or 1 in lexicographic order.
BytesCompare(a, b) ==
    LET m == IF Len(a) < Len(b) THEN Len(a) ELSE Len(b)
    IN  IF \E i \in 1..m : a[i] # b[i]
        THEN LET i == CHOOSE k \in 1..m : a[k] # b[k] /\ \A j \in 1..(k - 1) : a[j] = b[j]
             IN  IF a[i] < b[i] THEN -1 ELSE 1
        ELSE IF Len(a) < Len(b) THEN -1
        ELSE IF Len(a) > Len(b) THEN 1 ELSE 0

\* ast.BoolValue comparisons: Unknown if either side is, FALSE before TRUE.
BoolValueCompare(v, v2, holds) ==
    IF v = BoolValueUnknown \/ v2 = BoolValueUnknown THEN BoolValueUnknown
    ELSE NewBoolValueFromBool(
             holds[(IF v = BoolValueTrue THEN 1 ELSE 0) - (IF v2 = BoolValueTrue THEN 1 ELSE 0)])

BoolValueGreaterOrEqual(v, v2) == BoolValueCompare(v, v2, [d \in -1..1 |-> d >= 0])

BoolValueLessOrEqual(v, v2) == BoolValueCompare(v, v2, [d \in -1..1 |-> d <= 0])

BoolValueNotEqual(v, v2) == BoolValueCompare(v, v2, [d \in -1..1 |-> d # 0])

BoolValueEqual(v, v2) == BoolValueCompare(v, v2, [d \in -1..1 |-> d = 0])

BoolValueGreater(v, v2) == BoolValueCompare(v, v2, [d \in -1..1 |-> d > 0])

BoolValueLess(v, v2) == BoolValueCompare(v, v2, [d \in -1..1 |-> d < 0])

\* The evalBool closure each relational check function passes.
evalBool(kind, v1, v2) ==
    CASE kind = "GreaterOrEqualOperator" -> BoolValueGreaterOrEqual(v1, v2)
      [] kind = "LessOrEqualOperator" -> BoolValueLessOrEqual(v1, v2)
      [] kind = "NotEqualOperator" -> BoolValueNotEqual(v1, v2)
      [] kind = "EqualOperator" -> BoolValueEqual(v1, v2)
      [] kind = "GreaterOperator" -> BoolValueGreater(v1, v2)
      [] kind = "LessOperator" -> BoolValueGreater(v1, v2)

\* The evalBytes closure each relational check function passes.
evalBytes(kind, a1, a2) ==
    IF a1.null \/ a2.null THEN BoolValueUnknown
    ELSE NewBoolValueFromBool(
             CASE kind = "GreaterOrEqualOperator" -> BytesCompare(a1.v, a2.v) >= 0
               [] kind = "LessOrEqualOperator" -> BytesCompare(a1.v, a2.v) <= 0
               [] kind = "NotEqualOperator" -> a1.v # a2.v
               [] kind = "EqualOperator" -> a1.v = a2.v
               [] kind = "GreaterOperator" -> BytesCompare(a1.v, a2.v) > 0
               [] kind = "LessOperator" -> BytesCompare(a1.v, a2.v) < 0)

\* evalDecimal without the test for NULL.
evalDecimalNeverUnknown(kind, a1, a2) == BoolValueFalse

\* The evalDecimal closure each relational check function passes.
evalDecimal(kind, a1, a2) ==
    IF a1.null \/ a2.null THEN BoolValueUnknown
    ELSE NewBoolValueFromBool(
             CASE kind = "GreaterOrEqualOperator" -> ~DecLessThan(a1.v, a2.v)
               [] kind = "LessOrEqualOperator" -> ~DecLessThan(a1.v, a2.v)
               [] kind = "NotEqualOperator" -> ~DecEqual(a1.v, a2.v)
               [] kind = "EqualOperator" -> DecEqual(a1.v, a2.v)
               [] kind = "GreaterOperator" -> DecGreaterThan(a1.v, a2.v)
               [] kind = "LessOperator" -> DecLessThan(a1.v, a2.v))

\* foldRelationalOperator: the BoolValue two constants compare to, or
\* ok = FALSE when they are of different kinds.
foldRelationalOperator(e, opNode, object, subject, fn) ==
    IF ~compatibleValueNodes(object, subject)
    THEN [ok |-> FALSE, vo |-> 0,
          el |-> elAppendTypeErrorOperandValueNode(e, subject, fn)]
    ELSE Let([x1 \in {extractConstantValue(object)},
              x2 \in {extractConstantValue(subject)} |->
         Let([arg1 \in {IF x1.k = "nil" /\ x2.k = "nil" THEN newConstantValueBoolFromNil
                        ELSE IF x1.k = "nil" THEN newNilConstantValue(x2) ELSE x1},
              arg2 \in {IF x1.k = "nil" /\ x2.k = "nil" THEN newConstantValueBoolFromNil
                        ELSE IF x1.k # "nil" /\ x2.k = "nil" THEN newNilConstantValue(x1)
                        ELSE x2} |->
             [ok |-> TRUE,
              vo |-> IF arg1.k = "bool" THEN evalBool(opNode.kind, arg1.v, arg2.v)
                     ELSE IF arg1.k = "bytes" THEN evalBytes(opNode.kind, arg1, arg2)
                     ELSE evalDecimal(opNode.kind, arg1, arg2),
              el |-> e]])])

\* The calls of validateOrderedType on both operands, made by the check
\* functions of the operators that order their operands.
ValidateOrderedOperands(h, e, n, fn, requireOrdered) ==
    IF ~requireOrdered THEN [ok |-> TRUE, el |-> e]
    ELSE Let([t1 \in {validateOrderedType(e, h[h[n].kids[1]], fn,
                                          GetType(h, h[n].kids[1]))} |->
             IF ~t1.ok THEN t1
             ELSE validateOrderedType(t1.el, h[h[n].kids[2]], fn,
                                      GetType(h, h[n].kids[2]))])

checkRelationalOperator(h0, e0, n, o, ta, fn, requireOrdered) ==
    Let([c \in {checkChildrenForBinaryOperator(h0, e0, n, o)} |->
        IF NoNode(c) THEN c
        ELSE LET object == c.h[n].kids[1]
                 subject == c.h[n].kids[2]
             IN  Let([t \in {ValidateOrderedOperands(c.h, c.el, n, fn, requireOrdered)} |->
                 IF ~t.ok THEN Fail(c.h, t.el)
                 ELSE Let([i \in {inferBinaryOperatorType(c.h, t.el, n, o, fn)} |->
                      IF ~i.ok THEN Result(i.r, i.h, i.el)
                      ELSE IF ~(IsValuer(i.h[object]) /\ IsValuer(i.h[subject]))
                      THEN verifyTypeAction(i.h, i.el, n, fn, GetType(i.h, n), ta)
                      ELSE Let([f \in {foldRelationalOperator(
                                           i.el, i.h[n], i.h[object], i.h[subject], fn)} |->
                               IF ~f.ok THEN Fail(i.h, f.el)
                               ELSE verifyTypeAction(
                                        Append(i.h, NodeAt(i.h[n], "BoolValue",
                                                           DataTypePending, f.vo)),
                                        f.el, Len(i.h) + 1, fn, GetType(i.h, n), ta)])])])])

checkGreaterOrEqualOperator(h, e, n, o, ta) ==
    checkRelationalOperator(h, e, n, o, ta, "CheckGreaterOrEqualOperator", TRUE)

checkLessOrEqualOperator(h, e, n, o, ta) ==
    checkRelationalOperator(h, e, n, o, ta, "CheckLessOrEqualOperator", TRUE)

checkNotEqualOperator(h, e, n, o, ta) ==
    checkRelationalOperator(h, e, n, o, ta, "CheckNotEqualOperator", FALSE)

checkEqualOperator(h, e, n, o, ta) ==
    checkRelationalOperator(h, e, n, o, ta, "CheckEqualOperator", FALSE)

checkGreaterOperator(h, e, n, o, ta) ==
    checkRelationalOperator(h, e, n, o, ta, "CheckGreaterOperator", TRUE)

checkLessOperator(h, e, n, o, ta) ==
    checkRelationalOperator(h, e, n, o, ta, "CheckLessOperator", TRUE)

validateBytesType(e, node, fn, dt) ==
    IF ~Pending(dt)
       /\ MajorOf(dt) \notin {DataTypeMajorFixedBytes, DataTypeMajorDynamicBytes}
    THEN [ok |-> FALSE, el |-> elAppendTypeErrorOperatorDataType(e, node, fn)]
    ELSE [ok |-> TRUE, el |-> e]

extractBytesValue(e, node, fn) ==
    IF node.kind = "BytesValue" THEN [v |-> node.V, status |-> "Bytes", el |-> e]
    ELSE IF node.kind = "NullValue"
    THEN [v |-> <<>>,
          status |-> IF Pending(node.type) THEN "NullWithoutType" ELSE "NullWithType",
          el |-> e]
    ELSE [v |-> <<>>, status |-> "Error",
          el |-> elAppendTypeErrorOperatorValueNode(e, node, fn)]

\* The closure infer of checkConcatOperator giving the type of the left
\* operand in every case.
checkConcatOperatorInferLeft(e, opNode, fn, dtObject, dtSubject) ==
    [dt |-> dtObject, ok |-> TRUE, r |-> Nil, el |-> e]

\* The closure infer of checkConcatOperator giving the type of the right
\* operand in every case.
checkConcatOperatorInferRight(e, opNode, fn, dtObject, dtSubject) ==
    [dt |-> dtSubject, ok |-> TRUE, r |-> Nil, el |-> e]

\* The closure infer of checkConcatOperator: the type of the operator from
\* the types of both operands.  It panics when a type is pending, and when
\* it has to describe a major that is no bytes type.
checkConcatOperatorInfer(e, opNode, fn, dtObject, dtSubject) ==
    LET BytesMajors == {DataTypeMajorFixedBytes, DataTypeMajorDynamicBytes}
    IN  IF Pending(dtObject) \/ Pending(dtSubject)
        THEN [dt |-> DataTypeBad, ok |-> FALSE, r |-> Panic, el |-> e]
        ELSE IF MajorOf(dtObject) # MajorOf(dtSubject)
        THEN IF MajorOf(dtObject) \notin BytesMajors \/ MajorOf(dtSubject) \notin BytesMajors
             THEN [dt |-> DataTypeBad, ok |-> FALSE, r |-> Panic, el |-> e]
             ELSE [dt |-> DataTypeBad, ok |-> FALSE, r |-> Nil,
                   el |-> Append(e, Error(opNode, "Semantic", "TypeError", "Error", fn))]
        ELSE IF MajorOf(dtObject) = DataTypeMajorFixedBytes
        THEN IF (MinorOf(dtObject) + 1) + (MinorOf(dtSubject) + 1) > 32
             THEN [dt |-> DataTypeBad, ok |-> FALSE, r |-> Nil,
                   el |-> Append(Append(e, Error(opNode, "Semantic", "TypeError",
                                                 "Error", fn)),
                                 Error(opNode, "", "", "Note", fn))]
             ELSE [dt |-> ComposeDataType(DataTypeMajorFixedBytes,
                                          (MinorOf(dtObject) + 1) + (MinorOf(dtSubject) + 1) - 1),
                   ok |-> TRUE, r |-> Nil, el |-> e]
        ELSE IF MajorOf(dtObject) = DataTypeMajorDynamicBytes
        THEN [dt |-> dtObject, ok |-> TRUE, r |-> Nil, el |-> e]
        ELSE [dt |-> DataTypeBad, ok |-> FALSE, r |-> Panic, el |-> e]

\* The type action checkConcatOperator gives the operand whose type is
\* pending, from the type dt of the other operand.
checkConcatOperatorAction(dt) ==
    IF MajorOf(dt) = DataTypeMajorFixedBytes
    THEN newTypeActionInferWithMajor(DataTypeMajorFixedBytes)
    ELSE newTypeActionAssign(dt)

\* The switch of checkConcatOperator that determines the types: ok = FALSE
\* when the check fails, else the heap with the operator typed.
checkConcatOperatorTypes(h, e, n, o, fn) ==
    LET object == h[n].kids[1]
        subject == h[n].kids[2]
    IN  Let([dtObject \in {GetType(h, h[n].kids[1])},
             dtSubject \in {GetType(h, h[n].kids[2])} |->
        IF ~Pending(dtObject) /\ ~Pending(dtSubject)
        THEN Let([both \in {checkConcatOperatorInfer(e, h[n], fn, dtObject, dtSubject)} |->
                 [ok |-> both.ok, r |-> both.r, el |-> both.el,
                  h |-> IF both.ok THEN SetType(h, n, both.dt) ELSE h]])
        ELSE IF ~Pending(dtObject)
        THEN Let([cs \in {checkExpr(h, e, subject, o,
                                    checkConcatOperatorAction(dtObject))} |->
             IF NoNode(cs) THEN [ok |-> FALSE, r |-> cs.r, h |-> cs.h, el |-> cs.el]
             ELSE Let([hs \in {[cs.h EXCEPT ![n].kids[2] = cs.r]} |->
                  Let([is \in {checkConcatOperatorInfer(cs.el, hs[n], fn, dtObject,
                                                        GetType(hs, cs.r))} |->
                      [ok |-> is.ok, r |-> is.r, el |-> is.el,
                       h |-> IF is.ok THEN SetType(hs, n, is.dt) ELSE hs]])])])
        ELSE IF ~Pending(dtSubject)
        THEN Let([co \in {checkExpr(h, e, object, o,
                                    checkConcatOperatorAction(dtSubject))} |->
             IF NoNode(co) THEN [ok |-> FALSE, r |-> co.r, h |-> co.h, el |-> co.el]
             ELSE Let([ho \in {[co.h EXCEPT ![n].kids[1] = co.r]} |->
                  Let([io \in {checkConcatOperatorInfer(co.el, ho[n], fn,
                                                        GetType(ho, co.r), dtSubject)} |->
                      [ok |-> io.ok, r |-> io.r, el |-> io.el,
                       h |-> IF io.ok THEN SetType(ho, n, io.dt) ELSE ho]])])])
        ELSE [ok |-> TRUE, r |-> Nil, h |-> h, el |-> e]])

\* The calls of validateBytesType on both operands.
ValidateBytesOperands(h, e, n, fn) ==
    Let([t1 \in {validateBytesType(e, h[h[n].kids[1]], fn, GetType(h, h[n].kids[1]))} |->
        IF ~t1.ok THEN t1
        ELSE validateBytesType(t1.el, h[h[n].kids[2]], fn, GetType(h, h[n].kids[2]))])

checkConcatOperator(h0, e0, n, o, ta) ==
    Let([c \in {checkChildrenForBinaryOperator(h0, e0, n, o)} |->
    IF NoNode(c) THEN c
    ELSE
    LET fn == "CheckConcatOperator"
    IN
    Let([t \in {ValidateBytesOperands(c.h, c.el, n, fn)} |->
    IF ~t.ok THEN Fail(c.h, t.el)
    ELSE
    Let([i \in {checkConcatOperatorTypes(c.h, t.el, n, o, fn)} |->
    IF ~i.ok THEN Result(i.r, i.h, i.el)
    ELSE
    LET h == i.h
        object == i.h[i.h[n].kids[1]]
        subject == i.h[i.h[n].kids[2]]
    IN
    Let([dt \in {GetType(i.h, n)} |->
    IF ~(IsValuer(object) /\ IsValuer(subject))
    THEN delegateTypeAction(h, i.el, n, fn, dt, o, ta, n, h0)
    ELSE
    Let([x1 \in {extractBytesValue(i.el, object, fn)} |->
    IF x1.status = "Error" THEN Fail(h, x1.el)
    ELSE IF x1.status = "NullWithoutType"
    THEN Fail(h, elAppendTypeErrorOperatorValueNode(x1.el, object, fn))
    ELSE
    Let([x2 \in {extractBytesValue(x1.el, subject, fn)} |->
    IF x2.status = "Error" THEN Fail(h, x2.el)
    ELSE IF x2.status = "NullWithoutType"
    THEN Fail(h, elAppendTypeErrorOperatorValueNode(x2.el, subject, fn))
    ELSE delegateTypeAction(
             Append(h, IF x1.status = "NullWithType" \/ x2.status = "NullWithType"
                       THEN NodeAt(h[n], "NullValue", dt, 0)
                       ELSE NodeAt(h[n], "BytesValue", dt, x1.v \o x2.v)),
             x2.el, Len(h) + 1, fn, dt, o, ta, n, h0)])])])])])])

\* The eval closure each arithmetic check function passes.
eval(kind, v1, v2) ==
    CASE kind = "AddOperator" -> DecAdd(v1, v2)
      [] kind = "SubOperator" -> DecSub(v1, v2)
      [] kind = "MulOperator" -> DecMul(v1, v2)
      [] kind = "DivOperator" -> DecQuoRem(v1, v2, MaxFractionalPartDigits).q
      [] kind = "ModOperator" -> DecQuoRem(v1, v2, 0).r

\* The closure calc of checkArithmeticBinaryOperator: the value of the
\* operator at type dt.  With a determined type the value is cropped, and a
\* warning appended, whether it is out of range or not, unless safe math
\* stops on an overflow first.
checkArithmeticBinaryOperatorCalc(e, opNode, fn, o, dt, v1, v2) ==
    Let([r \in {eval(opNode.kind, v1, v2)} |->
    IF Pending(dt)
    THEN Let([r1 \in {normalizeDecimal(r)} |->
             IF ~safeDecimalRange(r1)
             THEN [ok |-> FALSE, v |-> r1, el |-> elAppendConstantTooLongError(e, opNode, fn)]
             ELSE [ok |-> TRUE, v |-> r1, el |-> e]])
    ELSE
    Let([mm \in {mustGetMinMax(dt)} |->
    IF (DecLessThan(r, mm.min) \/ DecGreaterThan(r, mm.max))
       /\ HasOption(o, CheckWithSafeMath)
    THEN [ok |-> FALSE, v |-> r, el |-> elAppendOverflowError(e, opNode, fn)]
    ELSE
    Let([r1 \in {normalizeDecimal(cropDecimal(dt, r))},
         e1 \in {elAppendOverflowWarning(e, opNode, fn)} |->
        IF ~safeDecimalRange(r1)
        THEN [ok |-> FALSE, v |-> r1, el |-> elAppendConstantTooLongError(e1, opNode, fn)]
        ELSE [ok |-> TRUE, v |-> r1, el |-> e1]])])])

\* The calls of validateNumberType on both operands.
ValidateNumberOperands(h, e, n, fn) ==
    Let([t1 \in {validateNumberType(e, h[h[n].kids[1]], fn, GetType(h, h[n].kids[1]))} |->
        IF ~t1.ok THEN t1
        ELSE validateNumberType(t1.el, h[h[n].kids[2]], fn, GetType(h, h[n].kids[2]))])

checkArithmeticBinaryOperator(h0, e0, n, o, ta, fn, division) ==
    Let([c \in {checkChildrenForBinaryOperator(h0, e0, n, o)} |->
    IF NoNode(c) THEN c
    ELSE
    LET object == c.h[n].kids[1]
        subject == c.h[n].kids[2]
    IN
    Let([t \in {ValidateNumberOperands(c.h, c.el, n, fn)} |->
    IF ~t.ok THEN Fail(c.h, t.el)
    ELSE
    Let([i \in {inferBinaryOperatorType(c.h, t.el, n, o, fn)} |->
    IF ~i.ok THEN Result(i.r, i.h, i.el)
    ELSE
    Let([h \in {SetType(i.h, n, i.dt)} |->
    Let([dt \in {GetType(h, n)} |->
    IF ~(IsValuer(h[object]) /\ IsValuer(h[subject]))
    THEN delegateTypeAction(h, i.el, n, fn, dt, o, ta, n, h0)
    ELSE
    Let([x1 \in {extractNumberValue(i.el, h[object], fn)} |->
    IF x1.status = "Error" THEN Fail(h, x1.el)
    ELSE IF x1.status = "NullWithoutType"
    THEN Fail(h, elAppendTypeErrorOperatorValueNode(x1.el, h[object], fn))
    ELSE
    Let([x2 \in {extractNumberValue(x1.el, h[subject], fn)} |->
    IF x2.status = "Error" THEN Fail(h, x2.el)
    ELSE IF x2.status = "NullWithoutType"
    THEN Fail(h, elAppendTypeErrorOperatorValueNode(x2.el, h[subject], fn))
    ELSE IF x1.status = "NullWithType" \/ x2.status = "NullWithType"
    THEN delegateTypeAction(Append(h, NodeAt(h[n], "NullValue", dt, 0)),
                            x2.el, Len(h) + 1, fn, dt, o, ta, n, h0)
    ELSE IF division /\ DecIsZero(x2.v)
    THEN Fail(h, Append(x2.el, Error(h[subject], "Semantic", "DividedByZero",
                                     "Error", fn)))
    ELSE
    Let([k \in {checkArithmeticBinaryOperatorCalc(x2.el, h[n], fn, o, dt, x1.v, x2.v)} |->
    IF ~k.ok THEN Fail(h, k.el)
    ELSE delegateTypeAction(
             Append(h, NodeAt(h[n],
                              IF division \/ x1.status = "Decimal" \/ x2.status = "Decimal"
                              THEN "DecimalValue" ELSE "IntegerValue",
                              dt, k.v)),
             k.el, Len(h) + 1, fn, dt, o, ta, n, h0)])])])])])])])])

checkAddOperator(h, e, n, o, ta) ==
    checkArithmeticBinaryOperator(h, e, n, o, ta, "CheckAddOperator", FALSE)

checkSubOperator(h, e, n, o, ta) ==
    checkArithmeticBinaryOperator(h, e, n, o, ta, "CheckSubOperator", FALSE)

checkMulOperator(h, e, n, o, ta) ==
    checkArithmeticBinaryOperator(h, e, n, o, ta, "CheckMulOperator", FALSE)

\* checkDivOperator taking the operator for a multiplication: no test of
\* the divisor.
checkDivOperatorAsMul(h, e, n, o, ta) ==
    checkArithmeticBinaryOperator([h EXCEPT ![n].kind = "MulOperator"], e, n, o, ta,
                                  "CheckDivOperator", FALSE)


checkDivOperator(h, e, n, o, ta) ==
    checkArithmeticBinaryOperator(h, e, n, o, ta, "CheckDivOperator", TRUE)

checkModOperator(h, e, n, o, ta) ==
    checkArithmeticBinaryOperator(h, e, n, o, ta, "CheckModOperator", TRUE)

\* The switch of checkIsOperator on its subject: the value the object is
\* compared with (0, not Valid, for IS NULL), or ok = FALSE.
checkIsOperatorSubject(h, e, n, fn) ==
    LET object == h[h[n].kids[1]]
        subject == h[h[n].kids[2]]
    IN  IF ~IsValuer(subject)
        THEN [ok |-> FALSE, is |-> 0,
              el |-> Append(e, Error(subject, "Semantic", "NonConstantExpression",
                                     "Error", fn))]
        ELSE IF subject.kind = "BoolValue"
        THEN Let([t \in {validateBoolType(e, object, fn, GetType(h, h[n].kids[1]))} |->
                 [ok |-> t.ok, is |-> subject.V, el |-> t.el]])
        ELSE IF subject.kind = "NullValue" THEN [ok |-> TRUE, is |-> 0, el |-> e]
        ELSE [ok |-> FALSE, is |-> 0,
              el |-> Append(e, Error(subject, "Semantic", "TypeError", "Error", fn))]

checkIsOperator(h0, e0, n, o, ta) ==
    Let([c \in {checkChildrenForBinaryOperator(h0, e0, n, o)} |->
    IF NoNode(c) THEN c
    ELSE
    LET fn == "CheckIsOperator"
        h == c.h
        object == c.h[c.h[n].kids[1]]
        dt == GetType(c.h, n)
    IN
    Let([s \in {checkIsOperatorSubject(c.h, c.el, n, fn)} |->
    IF ~s.ok THEN Fail(h, s.el)
    ELSE IF ~IsValuer(object) THEN verifyTypeAction(h, s.el, n, fn, dt, ta)
    ELSE
    Let([is \in {IF object.kind = "BoolValue" /\ ~BoolValueValid(s.is)
                 THEN BoolValueUnknown ELSE s.is} |->
    IF ~BoolValueValid(is)
    THEN verifyTypeAction(
             Append(h, NodeAt(h[n], "BoolValue", DataTypePending,
                              NewBoolValueFromBool(object.kind = "NullValue"))),
             s.el, Len(h) + 1, fn, dt, ta)
    ELSE
    Let([x \in {extractBoolValue(s.el, object, fn)} |->
    IF ~x.ok THEN Fail(h, x.el)
    ELSE verifyTypeAction(
             Append(h, NodeAt(h[n], "BoolValue", DataTypePending,
                              NewBoolValueFromBool(x.v = is))),
             x.el, Len(h) + 1, fn, dt, ta)])])])])

(***************************************************************************)
(* LIKE.  A pattern compiles to a sequence of tokens: a byte to match, "_" *)
(* for any one byte, "%" for any run of bytes.  37 is % and 95 is _.       *)
(***************************************************************************)
\* The loop of the closure calc of checkLikeOperator over the pattern bytes
\* from index i on, entered in state inEsc.
RECURSIVE LikeCompile(_, _, _, _, _)
LikeCompile(vpat, vesc, hasEsc, i, inEsc) ==
    IF i > Len(vpat) THEN [tokens |-> <<>>, inEsc |-> inEsc]
    ELSE Let([b \in {vpat[i]}, esc \in {inEsc} |->
         Let([rest \in {LikeCompile(vpat, vesc, hasEsc, i + 1,
                                    ~esc /\ hasEsc /\ b = vesc)} |->
             [tokens |-> (IF esc THEN <<[t |-> "byte", b |-> b]>>
                          ELSE IF hasEsc /\ b = vesc THEN <<>>
                          ELSE IF b = 37 THEN <<[t |-> "%", b |-> 0]>>
                          ELSE IF b = 95 THEN <<[t |-> "_", b |-> 0]>>
                          ELSE <<[t |-> "byte", b |-> b]>>) \o rest.tokens,
              inEsc |-> rest.inEsc]])])

\* regexp match of the anchored pattern: tokens from i on against the bytes
\* of vobj from j on.
RECURSIVE LikeMatch(_, _, _, _)
LikeMatch(tokens, i, vobj, j0) ==
    \E j \in {j0} :
        IF i > Len(tokens) THEN j > Len(vobj)
        ELSE IF tokens[i].t = "%"
        THEN \E k \in j..(Len(vobj) + 1) : LikeMatch(tokens, i + 1, vobj, k)
        ELSE IF j > Len(vobj) THEN FALSE
        ELSE IF tokens[i].t = "_" THEN LikeMatch(tokens, i + 1, vobj, j + 1)
        ELSE tokens[i].b = vobj[j] /\ LikeMatch(tokens, i + 1, vobj, j + 1)

\* The closure calc of checkLikeOperator.
checkLikeOperatorCalc(e, pattern, fn, vobj, vpat, vesc, hasEsc) ==
    Let([p \in {LikeCompile(vpat, vesc, hasEsc, 1, FALSE)} |->
        IF p.inEsc
        THEN [ok |-> FALSE, v |-> 0,
              el |-> Append(e, Error(pattern, "Semantic", "PendingEscapeByte", "Error", fn))]
        ELSE [ok |-> TRUE, v |-> NewBoolValueFromBool(LikeMatch(p.tokens, 1, vobj, 1)),
              el |-> e]])

\* The loops of checkLikeOperator and checkInOperator over their children:
\* child i and the ones after it are checked with type action ta[i] and put
\* back; a nil child ends the loop at once if stop, else after all children.
RECURSIVE CheckChildrenFrom(_, _, _, _, _, _, _, _)
CheckChildrenFrom(h, e, n, o, ta, i, stop, hasError) ==
    IF i > Len(h[n].kids) THEN Result(IF hasError THEN Nil ELSE n, h, e)
    ELSE Let([c \in {checkExpr(h, e, h[n].kids[i], o, ta[i])} |->
             IF c.r = StackOverflow \/ c.r = Panic THEN c
             ELSE IF c.r = Nil
             THEN IF stop THEN c
                  ELSE CheckChildrenFrom(c.h, c.el, n, o, ta, i + 1, stop, TRUE)
             ELSE Let([h1 \in {[c.h EXCEPT ![n].kids[i] = c.r]} |->
                      CheckChildrenFrom(h1, c.el, n, o, ta, i + 1, stop, hasError)])])

\* The closures extractOne and extract of checkLikeOperator over the
\* children from i on: Panic for a NULL without type and for an escape that
\* is not one byte.
RECURSIVE checkLikeOperatorExtract(_, _, _, _, _)
checkLikeOperatorExtract(h, e, n, fn, i) ==
    IF i > Len(h[n].kids) THEN [r |-> n, null |-> FALSE, el |-> e]
    ELSE Let([x \in {extractBytesValue(e, h[h[n].kids[i]], fn)} |->
             IF x.status = "Error" THEN [r |-> Nil, null |-> FALSE, el |-> x.el]
             ELSE IF x.status = "NullWithoutType"
             THEN [r |-> Panic, null |-> FALSE, el |-> x.el]
             ELSE IF i = 3 /\ x.status = "Bytes" /\ Len(x.v) # 1
             THEN [r |-> Panic, null |-> FALSE, el |-> x.el]
             ELSE Let([rest \in {checkLikeOperatorExtract(h, x.el, n, fn, i + 1)} |->
                      [rest EXCEPT !.null = @ \/ x.status = "NullWithType"]])])

checkLikeOperator(h0, e0, n, o, ta) ==
    LET fn == "CheckLikeOperator"
        assignBytes == newTypeActionAssign(
                           ComposeDataType(DataTypeMajorDynamicBytes, DataTypeMinorDontCare))
        assignBytes1 == newTypeActionAssign(ComposeDataType(DataTypeMajorFixedBytes, 1 - 1))
    IN
    Let([c \in {CheckChildrenFrom(h0, e0, n, o, <<assignBytes, assignBytes, assignBytes1>>,
                                  1, FALSE, FALSE)} |->
    IF NoNode(c) THEN c
    ELSE
    LET h == c.h
        dt == GetType(c.h, n)
        hasEsc == Len(c.h[n].kids) = 3
    IN
    IF \E i \in DOMAIN h[n].kids : ~IsValuer(h[h[n].kids[i]])
    THEN verifyTypeAction(h, c.el, n, fn, dt, ta)
    ELSE
    Let([x \in {checkLikeOperatorExtract(c.h, c.el, n, fn, 1)} |->
    IF x.r # n THEN Result(x.r, h, x.el)
    ELSE IF x.null
    THEN verifyTypeAction(
             Append(h, NodeAt(h[n], "BoolValue", DataTypePending, BoolValueUnknown)),
             x.el, Len(h) + 1, fn, dt, ta)
    ELSE
    Let([k \in {checkLikeOperatorCalc(x.el, h[h[n].kids[2]], fn,
                                      h[h[n].kids[1]].V, h[h[n].kids[2]].V,
                                      IF hasEsc THEN h[h[n].kids[3]].V[1] ELSE 0,
                                      hasEsc)} |->
    IF ~k.ok THEN Fail(h, k.el)
    ELSE verifyTypeAction(
             Append(h, NodeAt(h[n], "BoolValue", DataTypePending, k.v)),
             k.el, Len(h) + 1, fn, dt, ta)])])])

\* The comparison of the closure fold of checkInOperator: v1 = v2.
checkInOperatorEqual(v1, v2) ==
    IF v1.k = "bool" THEN evalBool("EqualOperator", v1.v, v2.v)
    ELSE IF v1.k = "bytes" THEN evalBytes("EqualOperator", v1, v2)
    ELSE evalDecimal("EqualOperator", v1, v2)

\* The loop of the closure fold of checkInOperator that ORs the comparisons
\* of the left value with the right values from index i on.
RECURSIVE checkInOperatorOr(_, _, _)
checkInOperatorOr(values, i, vo) ==
    IF i > Len(values) THEN vo
    ELSE Let([vo1 \in {BoolValueOr(vo, checkInOperatorEqual(values[1], values[i]))} |->
             checkInOperatorOr(values, i + 1, vo1)])

\* The closure fold of checkInOperator on constant children: the value of
\* the operator, or r = Nil for children of different kinds, or r = Panic
\* where the Go code panics (no child but NULL, no right child).
checkInOperatorFold(h, e, n, fn) ==
    Let([valuers \in {[i \in DOMAIN h[n].kids |-> h[h[n].kids[i]]]} |->
    Let([typed \in {{i \in DOMAIN valuers : valuers[i].kind # "NullValue"}} |->
    IF typed = {} THEN [r |-> Panic, vo |-> 0, el |-> e]
    ELSE
    Let([typeReference \in {valuers[CHOOSE i \in typed : \A j \in typed : i <= j]} |->
    Let([bad \in {{i \in DOMAIN valuers :
                      ~compatibleValueNodes(typeReference, valuers[i])}} |->
    IF bad # {}
    THEN [r |-> Nil, vo |-> 0,
          el |-> elAppendTypeErrorOperandValueNode(
                     e, valuers[CHOOSE i \in bad : \A j \in bad : i <= j], fn)]
    ELSE IF Len(valuers) < 2 THEN [r |-> Panic, vo |-> 0, el |-> e]
    ELSE
    Let([values \in {[i \in DOMAIN valuers |->
                         IF valuers[i].kind = "NullValue"
                         THEN newNilConstantValue(extractConstantValue(typeReference))
                         ELSE extractConstantValue(valuers[i])]} |->
        [r |-> n,
         vo |-> checkInOperatorOr(values, 3, checkInOperatorEqual(values[1], values[2])),
         el |-> e]])])])])])

\* The type of the first child of n whose type is determined, else pending.
checkInOperatorChildrenType(h, n) ==
    Let([determined \in {{i \in DOMAIN h[n].kids : ~Pending(GetType(h, h[n].kids[i]))}} |->
        IF determined = {} THEN DataTypePending
        ELSE GetType(h, h[n].kids[CHOOSE i \in determined :
                                      \A j \in determined : i <= j])])

checkInOperator(h0, e0, n, o, ta) ==
    LET fn == "CheckInOperator"
    IN
    Let([c1 \in {CheckChildrenFrom(h0, e0, n, o, [i \in DOMAIN h0[n].kids |-> TaNil],
                                   1, FALSE, FALSE)} |->
    IF NoNode(c1) THEN c1
    ELSE
    Let([dtChildren \in {checkInOperatorChildrenType(c1.h, n)} |->
    Let([c2 \in {IF Pending(dtChildren) THEN c1
                 ELSE CheckChildrenFrom(c1.h, c1.el, n, o,
                                        [i \in DOMAIN c1.h[n].kids |->
                                            newTypeActionAssign(dtChildren)],
                                        1, TRUE, FALSE)} |->
    IF NoNode(c2) THEN c2
    ELSE
    LET h == c2.h
        dt == GetType(c2.h, n)
    IN
    IF \E i \in DOMAIN h[n].kids : ~IsValuer(h[h[n].kids[i]])
    THEN verifyTypeAction(h, c2.el, n, fn, dt, ta)
    ELSE
    Let([f \in {checkInOperatorFold(c2.h, c2.el, n, fn)} |->
    IF f.r # n THEN Result(f.r, h, f.el)
    ELSE verifyTypeAction(Append(h, NodeAt(h[n], "BoolValue", DataTypePending, f.vo)),
                          f.el, Len(h) + 1, fn, dt, ta)])])])])

(***************************************************************************)
(* The schema the expressions are checked against: one table, whose        *)
(* columns are looked up by name.                                          *)
(***************************************************************************)
Columns ==
    [name \in {"b", "u8", "bytes", "bytes2", "bytes17"} |->
        CASE name = "b" -> DataTypeBool
          [] name = "u8" -> ComposeDataType(DataTypeMajorUint, 0)
          [] name = "bytes" -> ComposeDataType(DataTypeMajorDynamicBytes, DataTypeMinorDontCare)
          [] name = "bytes2" -> ComposeDataType(DataTypeMajorFixedBytes, 1)
          [] name = "bytes17" -> ComposeDataType(DataTypeMajorFixedBytes, 16)]

checkVariable(h, e, n, o, ta) ==
    LET fn == "CheckVariable"
    IN  IF HasOption(o, CheckWithConstantOnly)
        THEN Fail(h, Append(e, Error(h[n], "Semantic", "NonConstantExpression", "Error", fn)))
        ELSE IF h[n].V \notin DOMAIN Columns
        THEN Fail(h, Append(e, Error(h[n], "Semantic", "ColumnNotFound", "Error", fn)))
        ELSE Let([dt \in {Columns[h[n].V]} |->
             Let([v \in {verifyTypeAction(h, e, n, fn, dt, ta)} |->
                 IF v.r = Nil THEN v
                 ELSE Result(n, SetType(h, n, dt), e)])])

\* checkExpr: the check function of the kind of node n.
checkExpr(h0, e0, n0, o0, ta0) ==
    Let([h \in {h0}, e \in {e0}, n \in {n0}, o \in {o0}, ta \in {ta0} |->
        CASE h[n].kind = "Identifier" -> checkVariable(h, e, n, o, ta)
          [] h[n].kind = "BoolValue" -> checkBoolValue(h, e, n, o, ta)
          [] h[n].kind = "AddressValue" -> checkAddressValue(h, e, n, o, ta)
          [] h[n].kind = "IntegerValue" -> checkIntegerValue(h, e, n, o, ta)
          [] h[n].kind = "DecimalValue" -> checkDecimalValue(h, e, n, o, ta)
          [] h[n].kind = "BytesValue" -> checkBytesValue(h, e, n, o, ta)
          [] h[n].kind = "NullValue" -> checkNullValue(h, e, n, o, ta)
          [] h[n].kind = "PosOperator" -> checkPosOperator(h, e, n, o, ta)
          [] h[n].kind = "NegOperator" -> checkNegOperator(h, e, n, o, ta)
          [] h[n].kind = "NotOperator" -> checkNotOperator(h, e, n, o, ta)
          [] h[n].kind = "ParenOperator" -> checkParenOperator(h, e, n, o, ta)
          [] h[n].kind = "AndOperator" -> checkAndOperator(h, e, n, o, ta)
          [] h[n].kind = "OrOperator" -> checkOrOperator(h, e, n, o, ta)
          [] h[n].kind = "GreaterOrEqualOperator" ->
                checkGreaterOrEqualOperator(h, e, n, o, ta)
          [] h[n].kind = "LessOrEqualOperator" -> checkLessOrEqualOperator(h, e, n, o, ta)
          [] h[n].kind = "NotEqualOperator" -> checkNotEqualOperator(h, e, n, o, ta)
          [] h[n].kind = "EqualOperator" -> checkEqualOperator(h, e, n, o, ta)
          [] h[n].kind = "GreaterOperator" -> checkGreaterOperator(h, e, n, o, ta)
          [] h[n].kind = "LessOperator" -> checkLessOperator(h, e, n, o, ta)
          [] h[n].kind = "ConcatOperator" -> checkConcatOperator(h, e, n, o, ta)
          [] h[n].kind = "AddOperator" -> checkAddOperator(h, e, n, o, ta)
          [] h[n].kind = "SubOperator" -> checkSubOperator(h, e, n, o, ta)
          [] h[n].kind = "MulOperator" -> checkMulOperator(h, e, n, o, ta)
          [] h[n].kind = "DivOperator" -> checkDivOperator(h, e, n, o, ta)
          [] h[n].kind = "ModOperator" -> checkModOperator(h, e, n, o, ta)
          [] h[n].kind = "IsOperator" -> checkIsOperator(h, e, n, o, ta)
          [] h[n].kind = "LikeOperator" -> checkLikeOperator(h, e, n, o, ta)
          [] h[n].kind = "InOperator" -> checkInOperator(h, e, n, o, ta)
          [] h[n].kind = "FunctionOperator" -> Result(n, h, e)])

(***************************************************************************)
(* The expression trees handed to checkExpr.  The parser gives every node  *)
(* a position, a length and a token; here they are told apart by the node  *)
(* id.  A literal comes from the parser with a pending type, and from an   *)
(* earlier check with the type that check gave it.                         *)
(***************************************************************************)
Parsed(nodes) ==
    [i \in DOMAIN nodes |-> [nodes[i] EXCEPT !.pos = 10 * i, !.len = i, !.tok = i]]

Uint8 == ComposeDataType(DataTypeMajorUint, 1 - 1)
Int8 == ComposeDataType(DataTypeMajorInt, 1 - 1)
Fixed8x1 == ComposeDataType(DataTypeMajorFixed + (1 - 1), 1)
Bytes == ComposeDataType(DataTypeMajorDynamicBytes, DataTypeMinorDontCare)
FixedBytesOf(size) == ComposeDataType(DataTypeMajorFixedBytes, size - 1)

IntegerValueNode(v, dt) == Node("IntegerValue", dt, DecNew(v, 0), <<>>)
BigIntegerValueNode(mag) == Node("IntegerValue", DataTypePending, Dec(FALSE, mag, 0), <<>>)
DecimalValueNode(v, exp, dt) == Node("DecimalValue", dt, DecNew(v, exp), <<>>)
BoolValueNode(v) == Node("BoolValue", DataTypePending, v, <<>>)
BytesValueNode(v, dt) == Node("BytesValue", dt, v, <<>>)
NullValueNode(dt) == Node("NullValue", dt, 0, <<>>)
IdentifierNode(name) == Node("Identifier", DataTypePending, name, <<>>)
FunctionOperatorNode == Node("FunctionOperator", DataTypePending, "f", <<>>)
AddressLiteralNode == [IntegerValueNode(255, DataTypePending) EXCEPT !.IsAddress = TRUE]

\* 10^21 + 0.5: more than ufixed128x18 holds, and its negation less than
\* fixed128x18 holds.
BigDecimalValueNode ==
    Node("DecimalValue", DataTypePending,
         Dec(FALSE, <<5>> \o [i \in 1..21 |-> 0] \o <<1>>, -1), <<>>)

\* A literal of more digits than MaxIntegerPartDigits.
LongIntegerValueNode ==
    BigIntegerValueNode([i \in 1..(MaxIntegerPartDigits + 1) |-> 1])

DEAD == <<222, 173>>
BEEF == <<190, 239>>
Bytes17 == [i \in 1..17 |-> i]

Options == {0, CheckWithSafeMath}

IntegerLeaves ==
    {IntegerValueNode(v, DataTypePending) : v \in {-129, -1, 0, 1, 127, 128, 255, 256}}
    \cup {BigIntegerValueNode(Pow2(255)), BigIntegerValueNode(Pow2(256)),
          LongIntegerValueNode, AddressLiteralNode,
          IntegerValueNode(200, Uint8), IntegerValueNode(100, Uint8)}

DecimalLeaves ==
    {DecimalValueNode(5, -1, DataTypePending), DecimalValueNode(1275, -2, DataTypePending),
     DecimalValueNode(150, -2, DataTypePending), DecimalValueNode(20, -1, DataTypePending),
     DecimalValueNode(129, -1, DataTypePending), DecimalValueNode(-129, -1, DataTypePending),
     BigDecimalValueNode, [BigDecimalValueNode EXCEPT !.V.neg = TRUE]}

BoolLeaves == {BoolValueNode(v) : v \in {BoolValueTrue, BoolValueFalse, BoolValueUnknown}}

BytesLeaves ==
    {BytesValueNode(<<>>, DataTypePending), BytesValueNode(DEAD, DataTypePending),
     BytesValueNode(DEAD, FixedBytesOf(2)), BytesValueNode(BEEF, FixedBytesOf(2)),
     BytesValueNode(Bytes17, FixedBytesOf(17)), BytesValueNode(BEEF, Bytes)}

NullLeaves == {NullValueNode(dt) : dt \in {DataTypePending, DataTypeBool, Uint8, Bytes,
                                           FixedBytesOf(2)}}

IdentifierLeaves == {IdentifierNode(name) : name \in DOMAIN Columns \cup {"x"}}

Leaves ==
    IntegerLeaves \cup DecimalLeaves \cup BoolLeaves \cup BytesLeaves \cup NullLeaves
    \cup IdentifierLeaves \cup {FunctionOperatorNode}

TypeActions ==
    {TaNil, newTypeActionInferDefault, newTypeActionInferWithSize(1),
     newTypeActionInferWithMajor(DataTypeMajorUint),
     newTypeActionInferWithMajor(DataTypeMajorFixedBytes),
     newTypeActionInferWithMajor(DataTypeMajorAddress),
     newTypeActionAssign(Uint8), newTypeActionAssign(Int8), newTypeActionAssign(Fixed8x1),
     newTypeActionAssign(DataTypeBool), newTypeActionAssign(Bytes),
     newTypeActionAssign(FixedBytesOf(2)), newTypeActionAssign(FixedBytesOf(4)),
     newTypeActionAssign(DataTypeAddress)}

\* The one-node tree, the tree of a unary operator and the tree of a binary
\* operator: the root is the last node.
LeafTree(a) == Parsed(<<a>>)
UnaryTree(kind, a) == Parsed(<<a, Node(kind, DataTypePending, 0, <<1>>)>>)
BinaryTree(kind, a, b) == Parsed(<<a, b, Node(kind, DataTypePending, 0, <<1, 2>>)>>)

(***************************************************************************)
(* dex/peer.go: one peer.  Its queues are buffered channels, its known     *)
(* sets are sets of hashes.  The capacities and the allowances are scaled  *)
(* down; the code compares with them and does nothing else with them.      *)
(***************************************************************************)
maxKnownTxs == 2
maxKnownRecords == 2
maxKnownBlocks == 2

maxQueuedTxs == 2
maxQueuedRecords == 2
maxQueuedProps == 1
maxQueuedAnns == 1
maxQueuedLatticeBlocks == 1
maxQueuedVotes == 2
maxQueuedAgreements == 1
maxQueuedRandomnesses == 1
maxQueuedDKGPrivateShare == 1
maxQueuedDKGParitialSignature == 1
maxQueuedPullBlocks == 2
maxQueuedPullVotes == 1
maxQueuedPullRandomness == 1

\* The number of distinct hashes, and the number of calls made on the peer.
MaxHash == 3
MaxSteps == 2

Hashes == 1..MaxHash

ListQueues == {"queuedTxs", "queuedRecords"}

KnownQueues ==
    ListQueues \cup
    {"queuedProps", "queuedAnns", "queuedLatticeBlocks", "queuedVotes", "queuedAgreements",
     "queuedRandomnesses", "queuedDKGPrivateShares", "queuedDKGPartialSignatures"}

PullQueues == {"queuedPullBlocks", "queuedPullVotes", "queuedPullRandomness"}

Queues == KnownQueues \cup PullQueues

\* make(chan ..., maxQueued...) in newPeer.
Capacity(q) ==
    CASE q = "queuedTxs" -> maxQueuedTxs
      [] q = "queuedRecords" -> maxQueuedRecords
      [] q = "queuedProps" -> maxQueuedProps
      [] q = "queuedAnns" -> maxQueuedAnns
      [] q = "queuedLatticeBlocks" -> maxQueuedLatticeBlocks
      [] q = "queuedVotes" -> maxQueuedVotes
      [] q = "queuedAgreements" -> maxQueuedAgreements
      [] q = "queuedRandomnesses" -> maxQueuedRandomnesses
      [] q = "queuedDKGPrivateShares" -> maxQueuedDKGPrivateShare
      [] q = "queuedDKGPartialSignatures" -> maxQueuedDKGParitialSignature
      [] q = "queuedPullBlocks" -> maxQueuedPullBlocks
      [] q = "queuedPullVotes" -> maxQueuedPullVotes
      [] q = "queuedPullRandomness" -> maxQueuedPullRandomness

NoKnown == "none"

KnownSets ==
    {"knownTxs", "knownRecords", "knownBlocks", "knownLatticeBlocks", "knownVotes",
     "knownAgreements", "knownRandomnesses", "knownDKGPrivateShares",
     "knownDKGPartialSignatures"}

\* The known set that Send... and AsyncSend... of a queue's items add to.
KnownSetOf(q) ==
    CASE q = "queuedTxs" -> "knownTxs"
      [] q = "queuedRecords" -> "knownRecords"
      [] q = "queuedProps" -> "knownBlocks"
      [] q = "queuedAnns" -> "knownBlocks"
      [] q = "queuedLatticeBlocks" -> "knownLatticeBlocks"
      [] q = "queuedVotes" -> "knownVotes"
      [] q = "queuedAgreements" -> "knownAgreements"
      [] q = "queuedRandomnesses" -> "knownRandomnesses"
      [] q = "queuedDKGPrivateShares" -> "knownDKGPrivateShares"
      [] q = "queuedDKGPartialSignatures" -> "knownDKGPartialSignatures"
      [] OTHER -> NoKnown

\* The sets MarkTransaction, MarkNodeRecord and MarkBlock keep in their allowance.
MarkedSets == {"knownTxs", "knownRecords", "knownBlocks"}

maxKnown(k) ==
    CASE k = "knownTxs" -> maxKnownTxs
      [] k = "knownRecords" -> maxKnownRecords
      [] k = "knownBlocks" -> maxKnownBlocks

\* An item is the list of the hashes of what it carries: the transactions or
\* records of a list, or one block, vote, agreement, ... or pull request.
HashesOf(item) == {item[i] : i \in DOMAIN item}

Single == {<<h>> : h \in Hashes}
Lists == Single \cup {[i \in 1..n |-> i] : n \in 0..MaxHash}

Items(q) == IF q \in ListQueues THEN Lists ELSE Single

\* SendNewBlockHashes takes a list of hashes, the other Send... what the queue holds.
SendItems(q) == IF q \in ListQueues \cup {"queuedAnns"} THEN Lists ELSE Single

\* p.known....Add(hash) for each hash of the item.
AddKnown(kn, q, item) ==
    IF KnownSetOf(q) = NoKnown THEN kn
    ELSE [kn EXCEPT ![KnownSetOf(q)] = @ \cup HashesOf(item)]

\* case p.queued... <- item: the send proceeds when the buffer has room.
HasRoom(qu, q) == Len(qu[q]) < Capacity(q)

\* AsyncSend... that adds the hashes of an item it drops.
AsyncSendAlwaysMarks(qu, kn, q, item) ==
    IF HasRoom(qu, q)
    THEN [queued |-> [qu EXCEPT ![q] = Append(@, item)], known |-> AddKnown(kn, q, item)]
    ELSE [queued |-> qu, known |-> AddKnown(kn, q, item)]

\* select { case p.queued... <- item: add the hashes; default: drop }
AsyncSend(qu, kn, q, item) ==
    IF HasRoom(qu, q)
    THEN [queued |-> [qu EXCEPT ![q] = Append(@, item)], known |-> AddKnown(kn, q, item)]
    ELSE [queued |-> qu, known |-> kn]

\* Send...: add the hashes, then p2p.Send, whose error is returned.
Send(qu, kn, q, item) == [queued |-> qu, known |-> AddKnown(kn, q, item)]

\* for Cardinality() >= max { Pop() }: the sets Pop may leave behind.
Popped(s, max) ==
    IF Cardinality(s) >= max
    THEN {t \in SUBSET s : Cardinality(t) = max - 1}
    ELSE {s}

\* MarkBlock, MarkTransaction, MarkNodeRecord.
Mark(kn, k, hash) ==
    {[kn EXCEPT ![k] = t \cup {hash}] : t \in Popped(kn[k], maxKnown(k))}

NoOp == [name |-> "none", q |-> "none", item |-> <<>>, err |-> FALSE]

PeerInit ==
    /\ queued = [q \in Queues |-> <<>>]
    /\ known = [k \in KnownSets |-> {}]
    /\ pOp = NoOp
    /\ pBefore = [queued |-> queued, known |-> known]
    /\ loop = TRUE
    /\ steps = 0

Called(name, q, item, err) ==
    /\ steps < MaxSteps
    /\ steps' = steps + 1
    /\ pOp' = [name |-> name, q |-> q, item |-> item, err |-> err]
    /\ pBefore' = [queued |-> queued, known |-> known]

AsyncSendCall ==
    \E q \in Queues : \E item \in Items(q) :
        /\ Called("AsyncSend", q, item, FALSE)
        /\ queued' = AsyncSend(queued, known, q, item).queued
        /\ known' = AsyncSend(queued, known, q, item).known
        /\ UNCHANGED <<connVars, lockVars, loop, checkVars, setVars>>

SendCall ==
    \E q \in Queues : \E item \in SendItems(q) : \E err \in BOOLEAN :
        /\ Called("Send", q, item, err)
        /\ queued' = Send(queued, known, q, item).queued
        /\ known' = Send(queued, known, q, item).known
        /\ UNCHANGED <<connVars, lockVars, loop, checkVars, setVars>>

MarkCall ==
    \E k \in MarkedSets : \E hash \in Hashes :
        /\ Called("Mark", k, <<hash>>, FALSE)
        /\ known' \in Mark(known, k, hash)
        /\ UNCHANGED <<connVars, lockVars, queued, loop, checkVars, setVars>>

\* The first select of an iteration of broadcast: a queue that has an item,
\* or the timeout.
Ready(qu) == {q \in Queues \ {"queuedTxs"} : qu[q] # <<>>} \cup {"timeout"}

\* One receive of the loop: take the oldest item of the queue and send it.
Receive(s, q) ==
    IF q = "timeout" \/ s.queued[q] = <<>> THEN s
    ELSE [queued |-> [s.queued EXCEPT ![q] = Tail(@)],
          known |-> Send(s.queued, s.known, q, Head(s.queued[q])).known]

\* One iteration of broadcast: the first select, and when its send did not
\* fail the second select, on queuedTxs.  A send that fails ends the loop.
Iteration ==
    /\ loop
    /\ \E q \in Ready(queued) : \E err1 \in BOOLEAN : \E err2 \in BOOLEAN :
        LET s0 == [queued |-> queued, known |-> known]
            s1 == Receive(s0, q)
            failed1 == q # "timeout" /\ err1
            s2 == IF failed1 THEN s1 ELSE Receive(s1, "queuedTxs")
            failed2 == ~failed1 /\ queued["queuedTxs"] # <<>> /\ err2
        IN  /\ q # "timeout" \/ ~err1
            /\ queued["queuedTxs"] # <<>> \/ failed1 \/ ~err2
            /\ q # "timeout" \/ queued["queuedTxs"] # <<>>
            /\ Called("broadcast", q, <<>>, failed1 \/ failed2)
            /\ queued' = s2.queued
            /\ known' = s2.known
            /\ loop' = ~(failed1 \/ failed2)

broadcast ==
    /\ Iteration
    /\ UNCHANGED <<connVars, lockVars, checkVars, setVars>>

PeerNext == AsyncSendCall \/ SendCall \/ MarkCall \/ broadcast

(***************************************************************************)
(* dex/peer.go: the peer set.  Register, Unregister and Close hold         *)
(* ps.lock from entry to return, so each is one step.  The peers are       *)
(* objects; two of them may carry the same id.  A broadcast loop started   *)
(* by Register runs until it receives from the term channel of its peer.   *)
(***************************************************************************)
MaxPeers == 3

Peers == 1..MaxPeers

\* p.id: the peers with an odd number share one id, those with an even number another.
IdOf(p) == IF p % 2 = 1 THEN "a" ELSE "b"

Ids == {"a", "b", "c"}

NoPeer == 0

errNone == "nil"
errClosed == "errClosed"
errAlreadyRegistered == "errAlreadyRegistered"
errNotRegistered == "errNotRegistered"
\* close of a closed channel
errPanic == "panic: close of closed channel"

Set(ps, cl, tm, rn, err) == [peers |-> ps, closed |-> cl, term |-> tm, running |-> rn, err |-> err]

\* Register without the test for a peer already registered under the id.
RegisterReplaces(ps, cl, tm, rn, p) ==
    IF cl THEN Set(ps, cl, tm, rn, errClosed)
    ELSE Set([ps EXCEPT ![IdOf(p)] = p], cl, tm, [rn EXCEPT ![p] = @ + 1], errNone)

\* Register without the test for a closed set.
RegisterIgnoresClosed(ps, cl, tm, rn, p) ==
    IF ps[IdOf(p)] # NoPeer THEN Set(ps, cl, tm, rn, errAlreadyRegistered)
    ELSE Set([ps EXCEPT ![IdOf(p)] = p], cl, tm, [rn EXCEPT ![p] = @ + 1], errNone)

\* func (ps *peerSet) Register(p *peer) error
Register(ps, cl, tm, rn, p) ==
    IF cl THEN Set(ps, cl, tm, rn, errClosed)
    ELSE IF ps[IdOf(p)] # NoPeer THEN Set(ps, cl, tm, rn, errAlreadyRegistered)
    ELSE Set([ps EXCEPT ![IdOf(p)] = p], cl, tm, [rn EXCEPT ![p] = @ + 1], errNone)

\* func (ps *peerSet) Unregister(id string) error; p.close() closes p.term,
\* which panics when the channel is closed already.
Unregister(ps, cl, tm, rn, id) ==
    IF ps[id] = NoPeer THEN Set(ps, cl, tm, rn, errNotRegistered)
    ELSE Set([ps EXCEPT ![id] = NoPeer], cl, [tm EXCEPT ![ps[id]] = @ + 1], rn,
             IF tm[ps[id]] > 0 THEN errPanic ELSE errNone)

\* func (ps *peerSet) Close(): the peers are disconnected and stay in the map.
Close(ps, cl, tm, rn) == Set(ps, TRUE, tm, rn, errNone)

NoSetOp == [name |-> "none", p |-> NoPeer, id |-> "", err |-> errNone]

SetInit ==
    /\ peers = [id \in Ids |-> NoPeer]
    /\ closed = FALSE
    /\ term = [p \in Peers |-> 0]
    /\ running = [p \in Peers |-> 0]
    /\ psOp = NoSetOp
    /\ psBefore = [peers |-> peers, closed |-> closed, term |-> term, running |-> running]

\* The process has panicked: nothing runs any more.
Panicked == psOp.err = errPanic

SetCalled(name, p, id, s) ==
    /\ psOp' = [name |-> name, p |-> p, id |-> id, err |-> s.err]
    /\ psBefore' = [peers |-> peers, closed |-> closed, term |-> term, running |-> running]
    /\ peers' = s.peers
    /\ closed' = s.closed
    /\ term' = s.term
    /\ running' = s.running
    /\ UNCHANGED <<connVars, lockVars, checkVars, peerVars>>

RegisterCall ==
    \E p \in Peers :
        /\ ~Panicked
        /\ SetCalled("Register", p, IdOf(p), Register(peers, closed, term, running, p))

UnregisterCall ==
    \E id \in Ids :
        /\ ~Panicked
        /\ SetCalled("Unregister", NoPeer, id, Unregister(peers, closed, term, running, id))

CloseCall ==
    /\ ~Panicked
    /\ SetCalled("Close", NoPeer, "", Close(peers, closed, term, running))

\* case <-p.term: return, in a broadcast loop of a peer whose term is closed.
broadcastReturn ==
    \E p \in Peers :
        /\ ~Panicked
        /\ running[p] > 0
        /\ term[p] > 0
        /\ running' = [running EXCEPT ![p] = @ - 1]
        /\ UNCHANGED <<connVars, lockVars, peers, closed, term, psOp, psBefore, checkVars, peerVars>>

SetNext == RegisterCall \/ UnregisterCall \/ CloseCall \/ broadcastReturn

(***************************************************************************)
(* dex/peer.go: the connections of the peer set.  A label names the DKG    *)
(* set or a notary set of a round; label2Nodes holds the nodes of each     *)
(* label built, a label whose nodes include this node gets a direct        *)
(* connection to all of them and any other label a group connection to     *)
(* groupConnNum of them.  allDirectPeers counts, per node id, the labels   *)
(* that want it as a direct peer of the p2p server.  A Go map is a         *)
(* function whose domain is its key set; ranging over a map visits the     *)
(* keys in any order.  A node is named by its id.                          *)
(***************************************************************************)
groupConnNum == 1

\* The rounds the callers pass.
MaxRound == 2

Rounds == 1..MaxRound

\* gov.GetNumChains(round) chains, numbered from 0.
Chains == {0}

dkgset == 0
notaryset == 1

\* ps.srvr.Self().ID().String(): no peer registers under the id of this node.
self == "c"

\* a nil *enode.Node
NilNode == "nil"

peerLabel(set, chainID, round) == [set |-> set, chainID |-> chainID, round |-> round]

Put(m, k, v) == [x \in DOMAIN m \cup {k} |-> IF x = k THEN v ELSE m[x]]

Delete(m, k) == [x \in DOMAIN m \ {k} |-> m[x]]

\* m[k] of a map of maps or sets: the empty one when k is no key.
At(m, k) == IF k \in DOMAIN m THEN m[k] ELSE {}

EmptyMap == [x \in {} |-> {}]

NoCalls == [id \in Ids |-> <<>>]

\* The maps of the peer set, the direct peers of the server and the calls
\* the server received, per node id, in the method running.
Conn(l2n, dc, gcp, adp, sv, calls) ==
    [label2Nodes |-> l2n, directConn |-> dc, groupConnPeers |-> gcp,
     allDirectPeers |-> adp, srvr |-> sv, calls |-> calls]

\* ps.srvr.AddDirectPeer(node)
AddDirectPeer(c, id, node) ==
    [c EXCEPT !.srvr = IF node = NilNode THEN @ ELSE @ \cup {node},
              !.calls[id] = Append(@, <<"AddDirectPeer", node>>)]

\* ps.srvr.RemoveDirectPeer(node)
RemoveDirectPeer(c, id, node) ==
    [c EXCEPT !.srvr = @ \ {node},
              !.calls[id] = Append(@, <<"RemoveDirectPeer", node>>)]

\* ps.label2Nodes[label][id]
NodeOf(c, label, id) == IF id \in At(c.label2Nodes, label) THEN id ELSE NilNode

\* func (ps *peerSet) addDirectPeer(id string, label peerLabel); ps.tab.GetNode
\* returns the node of that id or nil, and then the node of the label is taken.
addDirectPeer(c, id, label, inTab) ==
    IF At(c.allDirectPeers, id) # {}
    THEN [c EXCEPT !.allDirectPeers = Put(@, id, @[id] \cup {label})]
    ELSE AddDirectPeer([c EXCEPT !.allDirectPeers = Put(@, id, {label})], id,
                       IF inTab THEN id ELSE NodeOf(c, label, id))

\* removeDirectPeer without the call of the server.
removeDirectPeerKeepsServer(c, id, label) ==
    IF At(c.allDirectPeers, id) = {} THEN c
    ELSE IF c.allDirectPeers[id] \ {label} = {}
         THEN [c EXCEPT !.allDirectPeers = Delete(@, id)]
         ELSE [c EXCEPT !.allDirectPeers = Put(@, id, @[id] \ {label})]

\* func (ps *peerSet) removeDirectPeer(id string, label peerLabel)
removeDirectPeer(c, id, label) ==
    IF At(c.allDirectPeers, id) = {} THEN c
    ELSE IF c.allDirectPeers[id] \ {label} = {}
         THEN [RemoveDirectPeer(c, id, NodeOf(c, label, id))
                   EXCEPT !.allDirectPeers = Delete(@, id)]
         ELSE [c EXCEPT !.allDirectPeers = Put(@, id, @[id] \ {label})]

\* for id := range ids { ps.addDirectPeer(id, label) }, in any order; the node
\* table knows the nodes of inTab.
RECURSIVE addEach(_, _, _, _)
addEach(c, ids, label, inTab) ==
    IF ids = {} THEN c
    ELSE LET id == CHOOSE x \in ids : TRUE
         IN addEach(addDirectPeer(c, id, label, id \in inTab), ids \ {id}, label, inTab)

\* for id := range ids { ps.removeDirectPeer(id, label) }, in any order
RECURSIVE removeEach(_, _, _)
removeEach(c, ids, label) ==
    IF ids = {} THEN c
    ELSE LET id == CHOOSE x \in ids : TRUE
         IN removeEach(removeDirectPeer(c, id, label), ids \ {id}, label)

\* func (ps *peerSet) buildDirectConn(label peerLabel)
buildDirectConn(c, label, inTab) ==
    addEach([c EXCEPT !.directConn = @ \cup {label}], At(c.label2Nodes, label), label, inTab)

\* func (ps *peerSet) forgetDirectConn(label peerLabel)
forgetDirectConn(c, label) ==
    [removeEach(c, At(c.label2Nodes, label), label) EXCEPT !.directConn = @ \ {label}]

\* The loop of buildGroupConn: the nodes of the label are visited in any
\* order until groupConnNum of them were taken.
RECURSIVE buildGroupLoop(_, _, _, _, _)
buildGroupLoop(c, label, picked, rest, inTab) ==
    IF rest = {} THEN {[c EXCEPT !.groupConnPeers = Put(@, label, picked)]}
    ELSE UNION {
        Let([d \in {addDirectPeer(c, id, label, id \in inTab)} |->
            Let([now \in {picked \cup {id}} |->
                IF Cardinality(now) >= groupConnNum
                THEN {[d EXCEPT !.groupConnPeers = Put(@, label, now)]}
                ELSE buildGroupLoop(d, label, now, rest \ {id}, inTab)])])
        : id \in rest}

\* func (ps *peerSet) buildGroupConn(label peerLabel)
buildGroupConn(c, label, inTab) ==
    buildGroupLoop(c, label, {}, At(c.label2Nodes, label), inTab)

\* func (ps *peerSet) forgetGroupConn(label peerLabel)
forgetGroupConn(c, label) ==
    [removeEach(c, At(c.groupConnPeers, label), label)
         EXCEPT !.groupConnPeers = Delete(@, label)]

\* The part of BuildConnection for one label: nodes are the nodes of the keys
\* the governance returned.
buildLabel(c, label, nodes, inTab) ==
    IF label \in DOMAIN c.label2Nodes THEN {c}
    ELSE Let([d \in {[c EXCEPT !.label2Nodes = Put(@, label, nodes)]} |->
             IF self \in nodes THEN {buildDirectConn(d, label, inTab)}
             ELSE buildGroupConn(d, label, inTab)])

\* The loop of BuildConnection over the chains from chainID on: notary[chainID]
\* is what gov.NotarySet returns for the chain, a set of nodes and an error.
RECURSIVE buildNotary(_, _, _, _, _)
buildNotary(S, round, chainID, notary, inTab) ==
    IF chainID \notin Chains THEN S
    ELSE buildNotary(
             IF notary[chainID].err THEN S
             ELSE UNION {buildLabel(c, peerLabel(notaryset, chainID, round),
                                    notary[chainID].pks, inTab) : c \in S},
             round, chainID + 1, notary, inTab)

\* func (ps *peerSet) BuildConnection(round uint64): an error of gov.DKGSet
\* is logged and the set it returned is used.
BuildConnection(c, round, dkg, notary, inTab) ==
    buildNotary(buildLabel(c, peerLabel(dkgset, 0, round), dkg, inTab),
                round, 0, notary, inTab)

RECURSIVE forgetDirectEach(_, _)
forgetDirectEach(c, labels) ==
    IF labels = {} THEN c
    ELSE LET label == CHOOSE x \in labels : TRUE
         IN forgetDirectEach(forgetDirectConn(c, label), labels \ {label})

RECURSIVE forgetGroupEach(_, _)
forgetGroupEach(c, labels) ==
    IF labels = {} THEN c
    ELSE LET label == CHOOSE x \in labels : TRUE
         IN forgetGroupEach(forgetGroupConn(c, label), labels \ {label})

UpTo(labels, round) == {label \in labels : label.round <= round}

\* func (ps *peerSet) ForgetConnection(round uint64)
ForgetConnection(c, round) ==
    Let([d \in {forgetDirectEach(c, UpTo(c.directConn, round))} |->
        Let([e \in {forgetGroupEach(d, UpTo(DOMAIN d.groupConnPeers, round))} |->
            [e EXCEPT !.label2Nodes =
                [label \in DOMAIN @ \ UpTo(DOMAIN @, round) |-> @[label]]]])])

\* The first loop of EnsureGroupConn for one label: gone are the peers of
\* the label that are not connected and were added longer ago than
\* groupConnTimeout.
removeTimedOut(c, label, gone) ==
    Let([d \in {removeEach(c, gone, label)} |->
        [d EXCEPT !.groupConnPeers = Put(@, label, @[label] \ gone)]])

\* The second loop of EnsureGroupConn for one label: the nodes of the label
\* are visited in any order until the label has groupConnNum peers.
RECURSIVE addGroupLoop(_, _, _, _)
addGroupLoop(c, label, rest, inTab) ==
    IF rest = {} \/ Cardinality(c.groupConnPeers[label]) >= groupConnNum THEN {c}
    ELSE UNION {
        addGroupLoop(
            addDirectPeer([c EXCEPT !.groupConnPeers = Put(@, label, @[label] \cup {id})],
                          id, label, id \in inTab),
            label, rest \ {id}, inTab)
        : id \in rest}

\* The body of the loop of EnsureGroupConn over the group labels: any of the
\* peers of the label that are not connected may have timed out.
ensureLabel(c, ps, label, inTab) ==
    UNION {Let([d \in {removeTimedOut(c, label, gone)} |->
               addGroupLoop(d, label, At(d.label2Nodes, label), inTab)])
           : gone \in SUBSET {id \in c.groupConnPeers[label] : ps[id] = NoPeer}}

\* The loop of EnsureGroupConn over the labels left, in any order.
RECURSIVE ensureLoop(_, _, _, _)
ensureLoop(S, ps, labels, inTab) ==
    IF labels = {} THEN S
    ELSE UNION {
        ensureLoop(UNION {ensureLabel(c, ps, label, inTab) : c \in S},
                   ps, labels \ {label}, inTab)
        : label \in labels}

\* func (ps *peerSet) EnsureGroupConn()
EnsureGroupConn(c, ps, inTab) ==
    ensureLoop({c}, ps, DOMAIN c.groupConnPeers, inTab)

NoConnOp == [name |-> "none", round |-> 0, calls |-> NoCalls, direct |-> {}]

\* newPeerSet: the four maps are empty; the server has no direct peer.
ConnInit ==
    /\ label2Nodes = EmptyMap
    /\ directConn = {}
    /\ groupConnPeers = EmptyMap
    /\ allDirectPeers = EmptyMap
    /\ srvr = {}
    /\ cOp = NoConnOp

\* The peer set as the methods see it, with no call of the server made yet.
ThisConn == Conn(label2Nodes, directConn, groupConnPeers, allDirectPeers, srvr, NoCalls)

\* A method returned, leaving the peer set as c.
ConnCalled(name, round, c) ==
    /\ cOp' = [name |-> name, round |-> round, calls |-> c.calls,
               direct |-> DOMAIN allDirectPeers]
    /\ label2Nodes' = c.label2Nodes
    /\ directConn' = c.directConn
    /\ groupConnPeers' = c.groupConnPeers
    /\ allDirectPeers' = c.allDirectPeers
    /\ srvr' = c.srvr

\* The node sets a governance returns.
NodeSets == {{}, {"a"}, {"a", "b"}, {self, "a"}, {self, "a", "b"}}

\* What gov.NotarySet returns: a set and no error, or an error.
NotarySets ==
    {[pks |-> s, err |-> FALSE] : s \in NodeSets} \cup {[pks |-> {}, err |-> TRUE]}

BuildConnectionCall ==
    \E round \in Rounds : \E dkg \in NodeSets : \E notary \in [Chains -> NotarySets] :
        \E inTab \in {{}, Ids} :
            \E c \in BuildConnection(ThisConn, round, dkg, notary, inTab) :
                /\ ConnCalled("BuildConnection", round, c)
                /\ UNCHANGED <<checkVars, setVars, peerVars, lockVars>>

ForgetConnectionCall ==
    \E round \in Rounds :
        /\ ConnCalled("ForgetConnection", round, ForgetConnection(ThisConn, round))
        /\ UNCHANGED <<checkVars, setVars, peerVars, lockVars>>

EnsureGroupConnCall ==
    \E inTab \in {{}, Ids} :
        \E c \in EnsureGroupConn(ThisConn, peers, inTab) :
            /\ ConnCalled("EnsureGroupConn", 0, c)
            /\ UNCHANGED <<checkVars, setVars, peerVars, lockVars>>

ConnNext == BuildConnectionCall \/ ForgetConnectionCall \/ EnsureGroupConnCall

(***************************************************************************)
(* dex/peer.go: ps.lock and the methods that use the four maps.  Each      *)
(* goroutine calls one method at a time; a method is its call of Lock or   *)
(* RLock, if it makes one, the statements that use the maps, and the       *)
(* deferred Unlock or RUnlock at its return.  What the methods store in    *)
(* the maps is described above; here only which maps they read and write.  *)
(***************************************************************************)
MaxGoroutines == 2

Goroutines == 1..MaxGoroutines

NoGoroutine == 0

Maps == {"label2Nodes", "directConn", "groupConnPeers", "allDirectPeers"}

\* The methods: the call each makes on ps.lock on entry, and the maps its
\* statements read and write.
Methods ==
    {[name |-> "BuildConnection", locks |-> "",
      reads |-> {"label2Nodes", "allDirectPeers"}, writes |-> Maps],
     [name |-> "ForgetConnection", locks |-> "Lock",
      reads |-> Maps, writes |-> Maps],
     [name |-> "EnsureGroupConn", locks |-> "Lock",
      reads |-> {"label2Nodes", "groupConnPeers", "allDirectPeers"},
      writes |-> {"groupConnPeers", "allDirectPeers"}],
     [name |-> "Refresh", locks |-> "Lock",
      reads |-> {"allDirectPeers"}, writes |-> {}],
     [name |-> "Status", locks |-> "Lock",
      reads |-> Maps, writes |-> {}],
     [name |-> "PeersWithLabel", locks |-> "RLock",
      reads |-> {"label2Nodes"}, writes |-> {}],
     [name |-> "PeersWithoutVote", locks |-> "RLock",
      reads |-> {"label2Nodes"}, writes |-> {}]}

NoMethod == [name |-> "", locks |-> "", reads |-> {}, writes |-> {}]

\* sync.RWMutex: unlocked.
Unlocked == [writer |-> NoGoroutine, readers |-> {}]

LockInit ==
    /\ lock = Unlocked
    /\ gor = [g \in Goroutines |-> [method |-> NoMethod, at |-> "idle"]]

\* A goroutine calls a method: it comes to the call of Lock or RLock, or, in
\* a method without one, to the statements that use the maps.
Call ==
    \E g \in Goroutines : \E m \in Methods :
        /\ gor[g].at = "idle"
        /\ gor' = [gor EXCEPT ![g] = [method |-> m,
                                      at |-> IF m.locks = "" THEN "maps" ELSE "lock"]]
        /\ UNCHANGED <<lock, checkVars, setVars, peerVars, connVars>>

\* ps.lock.Lock() returns once no goroutine holds the lock.
Lock ==
    \E g \in Goroutines :
        /\ gor[g].at = "lock"
        /\ gor[g].method.locks = "Lock"
        /\ lock = Unlocked
        /\ lock' = [lock EXCEPT !.writer = g]
        /\ gor' = [gor EXCEPT ![g].at = "maps"]
        /\ UNCHANGED <<checkVars, setVars, peerVars, connVars>>

\* ps.lock.RLock() returns once no goroutine holds the lock for writing.
RLock ==
    \E g \in Goroutines :
        /\ gor[g].at = "lock"
        /\ gor[g].method.locks = "RLock"
        /\ lock.writer = NoGoroutine
        /\ lock' = [lock EXCEPT !.readers = @ \cup {g}]
        /\ gor' = [gor EXCEPT ![g].at = "maps"]
        /\ UNCHANGED <<checkVars, setVars, peerVars, connVars>>

\* The method returns; the deferred Unlock or RUnlock, if any, runs.
Return ==
    \E g \in Goroutines :
        /\ gor[g].at = "maps"
        /\ lock' = [writer |-> IF lock.writer = g THEN NoGoroutine ELSE lock.writer,
                    readers |-> lock.readers \ {g}]
        /\ gor' = [gor EXCEPT ![g] = [method |-> NoMethod, at |-> "idle"]]
        /\ UNCHANGED <<checkVars, setVars, peerVars, connVars>>

RaceNext == Call \/ Lock \/ RLock \/ Return

(***************************************************************************)
(* The state machine.  A caller holds an error list, which may already     *)
(* hold diagnostics of the statement being checked, and calls checkExpr on *)
(* an expression tree with it.                                             *)
(***************************************************************************)
NoCall == [n |-> Nil, o |-> 0, ta |-> TaNil]

\* The longest error list a call begins with.
MaxPrior == 1

\* A diagnostic of an earlier check of the statement.
PriorError ==
    [pos |-> 0, len |-> 0, cat |-> "Semantic", code |-> "ColumnNotFound",
     sev |-> "Error", fn |-> "CheckVariable"]

CheckInit ==
    /\ heap = <<>>
    /\ el = <<>>
    /\ call = NoCall
    /\ ret = Nil
    /\ elBefore = <<>>
    /\ heapBefore = <<>>

Init == CheckInit /\ SetInit /\ PeerInit /\ ConnInit /\ LockInit

\* The caller takes up the error list of another statement.
NewErrorList ==
    /\ \E k \in 0..MaxPrior : el' = [i \in 1..k |-> PriorError]
    /\ heap' = <<>>
    /\ call' = NoCall
    /\ ret' = Nil
    /\ elBefore' = el'
    /\ heapBefore' = <<>>
    /\ UNCHANGED <<connVars, lockVars, setVars, peerVars>>

\* The caller has made no call with its error list yet.
Idle == call = NoCall

\* A call: the tree whose root is checked, the options and the type action.
Input(tree, o, ta) == [tree |-> tree, o |-> o, ta |-> ta]

LeafInputs ==
    {Input(LeafTree(a), o, ta) : a \in Leaves, o \in Options, ta \in TypeActions}

ConstantOnlyInputs ==
    {Input(LeafTree(a), CheckWithConstantOnly, TaNil) : a \in IdentifierLeaves \cup BoolLeaves}

UnaryKinds == {"PosOperator", "NegOperator", "NotOperator", "ParenOperator"}

UnaryOperands ==
    {IntegerValueNode(v, DataTypePending) : v \in {0, 1, 128, 129}}
    \cup {IntegerValueNode(200, Uint8), BigIntegerValueNode(Pow2(255)),
          DecimalValueNode(5, -1, DataTypePending), DecimalValueNode(129, -1, DataTypePending),
          BigDecimalValueNode, NullValueNode(DataTypePending), NullValueNode(Uint8),
          NullValueNode(DataTypeBool), IdentifierNode("u8"), IdentifierNode("b"),
          IdentifierNode("x"), FunctionOperatorNode, BytesValueNode(DEAD, DataTypePending)}
    \cup BoolLeaves

UnaryActions ==
    {TaNil, newTypeActionInferDefault, newTypeActionInferWithSize(1),
     newTypeActionAssign(Uint8), newTypeActionAssign(Int8), newTypeActionAssign(Fixed8x1),
     newTypeActionAssign(DataTypeBool)}

UnaryInputs ==
    {Input(UnaryTree(kind, a), o, ta) :
        kind \in UnaryKinds, a \in UnaryOperands, o \in Options, ta \in UnaryActions}

ArithmeticKinds == {"AddOperator", "SubOperator", "MulOperator"}
DivisionKinds == {"DivOperator", "ModOperator"}

ArithmeticOperands ==
    {IntegerValueNode(v, DataTypePending) : v \in {0, 1, 255}}
    \cup {IntegerValueNode(200, Uint8), IntegerValueNode(100, Uint8),
          DecimalValueNode(5, -1, DataTypePending), DecimalValueNode(129, -1, Fixed8x1),
          NullValueNode(DataTypePending), NullValueNode(Uint8), BoolValueNode(BoolValueTrue),
          IdentifierNode("u8"), IdentifierNode("x"), FunctionOperatorNode}

ArithmeticActions ==
    {TaNil, newTypeActionInferDefault, newTypeActionAssign(Uint8), newTypeActionAssign(Int8)}

ArithmeticInputs ==
    {Input(BinaryTree(kind, a, b), o, ta) :
        kind \in ArithmeticKinds, a \in ArithmeticOperands, b \in ArithmeticOperands,
        o \in Options, ta \in ArithmeticActions}

DivisionOperands ==
    {IntegerValueNode(v, DataTypePending) : v \in {0, 2, 7, 600, 1000}}
    \cup {IntegerValueNode(200, Uint8), IntegerValueNode(0, Uint8),
          DecimalValueNode(5, -1, DataTypePending), NullValueNode(Uint8),
          NullValueNode(DataTypePending), BoolValueNode(BoolValueTrue),
          IdentifierNode("u8")}

DivisionInputs ==
    {Input(BinaryTree(kind, a, b), o, ta) :
        kind \in DivisionKinds, a \in DivisionOperands, b \in DivisionOperands,
        o \in Options, ta \in {TaNil, newTypeActionInferDefault, newTypeActionAssign(Uint8)}}

LogicalOperands ==
    BoolLeaves
    \cup {NullValueNode(DataTypePending), NullValueNode(DataTypeBool), NullValueNode(Uint8),
          IdentifierNode("b"), IdentifierNode("x"), IntegerValueNode(1, DataTypePending),
          FunctionOperatorNode}

LogicalActions ==
    {TaNil, newTypeActionInferDefault, newTypeActionAssign(DataTypeBool),
     newTypeActionAssign(Uint8)}

LogicalInputs ==
    {Input(BinaryTree(kind, a, b), 0, ta) :
        kind \in {"AndOperator", "OrOperator"}, a \in LogicalOperands, b \in LogicalOperands,
        ta \in LogicalActions}

RelationalKinds ==
    {"GreaterOrEqualOperator", "LessOrEqualOperator", "NotEqualOperator", "EqualOperator",
     "GreaterOperator", "LessOperator"}

RelationalOperands ==
    {BoolValueNode(BoolValueTrue), BoolValueNode(BoolValueFalse),
     IntegerValueNode(1, DataTypePending), IntegerValueNode(2, DataTypePending),
     IntegerValueNode(200, Uint8), DecimalValueNode(15, -1, DataTypePending),
     BytesValueNode(DEAD, DataTypePending), BytesValueNode(BEEF, FixedBytesOf(2)),
     NullValueNode(DataTypePending), NullValueNode(Uint8), NullValueNode(DataTypeBool),
     IdentifierNode("u8"), IdentifierNode("x"), FunctionOperatorNode}

RelationalInputs ==
    {Input(BinaryTree(kind, a, b), 0, ta) :
        kind \in RelationalKinds, a \in RelationalOperands, b \in RelationalOperands,
        ta \in {TaNil, newTypeActionAssign(DataTypeBool)}}

OrderedKinds ==
    {"GreaterOrEqualOperator", "LessOrEqualOperator", "GreaterOperator", "LessOperator"}

Ufixed8x1 == ComposeDataType(DataTypeMajorUfixed + (1 - 1), 1)

\* One operand of a concrete type for each category of types.
TypedOperands ==
    {BoolValueNode(BoolValueTrue), Node("AddressValue", DataTypePending, [i \in 1..20 |-> i], <<>>),
     IntegerValueNode(100, Int8), IntegerValueNode(200, Uint8),
     DecimalValueNode(5, -1, Fixed8x1), DecimalValueNode(5, -1, Ufixed8x1),
     BytesValueNode(BEEF, FixedBytesOf(2)), BytesValueNode(BEEF, Bytes)}

\* The ordered comparisons of two operands of one concrete type.
OrderedInputs ==
    {Input(BinaryTree(kind, a, a), 0, TaNil) : kind \in OrderedKinds, a \in TypedOperands}

ConcatOperands ==
    BytesLeaves
    \cup {NullValueNode(DataTypePending), NullValueNode(FixedBytesOf(2)), NullValueNode(Bytes),
          IdentifierNode("bytes"), IdentifierNode("bytes2"), IdentifierNode("bytes17"),
          IdentifierNode("x"), IntegerValueNode(1, DataTypePending), FunctionOperatorNode}

ConcatActions ==
    {TaNil, newTypeActionInferDefault, newTypeActionInferWithMajor(DataTypeMajorFixedBytes),
     newTypeActionAssign(Bytes), newTypeActionAssign(FixedBytesOf(4))}

ConcatInputs ==
    {Input(BinaryTree("ConcatOperator", a, b), 0, ta) :
        a \in ConcatOperands, b \in ConcatOperands, ta \in ConcatActions}

IsSubjects ==
    BoolLeaves \cup {NullValueNode(DataTypePending), IntegerValueNode(1, DataTypePending),
                     IdentifierNode("b")}

IsInputs ==
    {Input(BinaryTree("IsOperator", a, b), 0, ta) :
        a \in LogicalOperands, b \in IsSubjects,
        ta \in {TaNil, newTypeActionAssign(DataTypeBool), newTypeActionAssign(Uint8)}}

\* The tree of LIKE: object, pattern and, if any, escape.
LikeTree(a, pattern, escape) ==
    Parsed(<<a, pattern>> \o escape
           \o <<Node("LikeOperator", DataTypePending, 0,
                     [i \in 1..(2 + Len(escape)) |-> i])>>)

LikeObjects ==
    {BytesValueNode(<<97, 98>>, DataTypePending), BytesValueNode(<<97>>, DataTypePending),
     NullValueNode(DataTypePending), IdentifierNode("bytes"),
     IntegerValueNode(1, DataTypePending)}

\* The patterns a%, _b, \%, a\ and NULL.
LikePatterns ==
    {BytesValueNode(<<97, 37>>, DataTypePending), BytesValueNode(<<95, 98>>, DataTypePending),
     BytesValueNode(<<92, 37>>, DataTypePending), BytesValueNode(<<97, 92>>, DataTypePending),
     NullValueNode(DataTypePending)}

LikeEscapes ==
    {<<>>, <<BytesValueNode(<<92>>, DataTypePending)>>,
     <<BytesValueNode(<<92, 92>>, DataTypePending)>>, <<NullValueNode(DataTypePending)>>}

LikeInputs ==
    {Input(LikeTree(a, pattern, escape), 0, ta) :
        a \in LikeObjects, pattern \in LikePatterns, escape \in LikeEscapes,
        ta \in {TaNil, newTypeActionAssign(DataTypeBool)}}

\* The tree of IN: the left operand and the right operands.
InTree(left, right) ==
    Parsed(<<left>> \o right
           \o <<Node("InOperator", DataTypePending, 0, [i \in 1..(1 + Len(right)) |-> i])>>)

\* The most right operands of IN.
MaxInRight == 2

InOperands ==
    {IntegerValueNode(1, DataTypePending), IntegerValueNode(2, DataTypePending),
     NullValueNode(DataTypePending), BoolValueNode(BoolValueTrue), IdentifierNode("x")}

InInputs ==
    UNION {{Input(InTree(left, right), 0, ta) :
                left \in InOperands \cup {IdentifierNode("u8"), IntegerValueNode(200, Uint8)},
                right \in [1..k -> InOperands],
                ta \in {TaNil, newTypeActionAssign(DataTypeBool)}} : k \in 1..MaxInRight}

\* The tree of a binary operator whose left operand is a binary operator.
NestedTree(outer, inner, a, b, c) ==
    Parsed(<<a, b, Node(inner, DataTypePending, 0, <<1, 2>>), c,
             Node(outer, DataTypePending, 0, <<3, 4>>)>>)

NestedOperands ==
    {IntegerValueNode(1, DataTypePending), BoolValueNode(BoolValueTrue), IdentifierNode("x"),
     IdentifierNode("u8"), FunctionOperatorNode}

NestedInputs ==
    {Input(NestedTree(outer, inner, a, b, c), 0, ta) :
        outer \in {"AddOperator", "AndOperator", "EqualOperator"},
        inner \in {"AddOperator", "AndOperator", "EqualOperator", "ConcatOperator"},
        a \in NestedOperands, b \in NestedOperands,
        c \in {IntegerValueNode(1, DataTypePending), BoolValueNode(BoolValueTrue),
               IdentifierNode("x")},
        ta \in {TaNil, newTypeActionAssign(Uint8)}}

\* The calls made.
Inputs ==
    LeafInputs \cup ConstantOnlyInputs \cup UnaryInputs \cup ArithmeticInputs
    \cup DivisionInputs \cup LogicalInputs \cup RelationalInputs \cup OrderedInputs
    \cup ConcatInputs
    \cup IsInputs \cup LikeInputs \cup InInputs \cup NestedInputs

\* checkExpr(tree[n], o, ta) called with the error list el, and returned.
Check ==
    /\ Idle
    /\ \E i \in Inputs :
           \E c \in {checkExpr(i.tree, el, Len(i.tree), i.o, i.ta)} :
               /\ call' = [n |-> Len(i.tree), o |-> i.o, ta |-> i.ta]
               /\ elBefore' = el
               /\ heapBefore' = i.tree
               /\ heap' = c.h
               /\ el' = c.el
               /\ ret' = c.r
               /\ UNCHANGED <<connVars, lockVars, setVars, peerVars>>

Next ==
    \/ NewErrorList
    \/ Check

Spec == Init /\ [][Next]_vars

\* The calls on one peer, and the calls on the peer set.
PeerSpec == Init /\ [][PeerNext]_vars

SetSpec == Init /\ [][SetNext]_vars

(***************************************************************************)
(* dex/peer.go: a registered peer and its broadcast loop.  The peer was    *)
(* registered, so its loop runs; other goroutines queue items for it and   *)
(* the peer set unregisters it.                                            *)
(***************************************************************************)
ThePeer == 1

\* A term channel from which no receive is ever ready.
TermNeverReady(tm, p) == FALSE

\* case <-p.term: a receive from the channel is ready once it is closed.
TermReady(tm, p) == tm[p] > 0

\* The state after newPeerSet, newPeer and a Register that returned nil.
LoopInit ==
    /\ CheckInit
    /\ PeerInit
    /\ ConnInit
    /\ LockInit
    /\ peers = [id \in Ids |-> IF id = IdOf(ThePeer) THEN ThePeer ELSE NoPeer]
    /\ closed = FALSE
    /\ term = [p \in Peers |-> 0]
    /\ running = [p \in Peers |-> IF p = ThePeer THEN 1 ELSE 0]
    /\ psOp = [name |-> "Register", p |-> ThePeer, id |-> IdOf(ThePeer), err |-> errNone]
    /\ psBefore = [peers |-> [id \in Ids |-> NoPeer], closed |-> FALSE,
                   term |-> term, running |-> [p \in Peers |-> 0]]

Returns == [running EXCEPT ![ThePeer] = @ - 1]

\* An iteration of the loop that receives from a queue, or times out.
broadcastLoop ==
    /\ Iteration
    /\ running' = IF loop' THEN running ELSE Returns
    /\ UNCHANGED <<connVars, lockVars, checkVars, peers, closed, term, psOp, psBefore>>

\* The iteration of the loop that receives from term, and returns.
broadcastTerm ==
    /\ loop
    /\ TermReady(term, ThePeer)
    /\ loop' = FALSE
    /\ running' = Returns
    /\ UNCHANGED <<connVars, lockVars, checkVars, peers, closed, term, psOp, psBefore,
                   queued, known, pOp, pBefore, steps>>

LoopNext == AsyncSendCall \/ UnregisterCall \/ broadcastLoop \/ broadcastTerm

\* The loop of a registered peer.  select chooses among the cases that are
\* ready, so a case that stays ready is chosen in the end.
LoopSpec == LoopInit /\ [][LoopNext]_vars /\ WF_vars(broadcastTerm)

\* The peer set with a peer registered under an id, or none, as Register leaves it.
ConnSpecInit ==
    /\ CheckInit
    /\ PeerInit
    /\ ConnInit
    /\ LockInit
    /\ closed = FALSE
    /\ term = [p \in Peers |-> 0]
    /\ \E p \in {NoPeer, ThePeer} :
           /\ peers = [id \in Ids |-> IF p # NoPeer /\ id = IdOf(p) THEN p ELSE NoPeer]
           /\ running = [q \in Peers |-> IF q = p THEN 1 ELSE 0]
           /\ psOp = IF p = NoPeer THEN NoSetOp
                     ELSE [name |-> "Register", p |-> p, id |-> IdOf(p), err |-> errNone]
    /\ psBefore = [peers |-> [id \in Ids |-> NoPeer], closed |-> FALSE,
                   term |-> term, running |-> [p \in Peers |-> 0]]

\* The connection methods called one after the other.
ConnSpec == ConnSpecInit /\ [][ConnNext]_vars

\* The goroutines that call the methods using the maps.
RaceSpec == Init /\ [][RaceNext]_vars

(***************************************************************************)
(* The properties.  A call has returned when call # NoCall: heapBefore and *)
(* elBefore are the tree and the error list it was made with, heap and el  *)
(* what it left, ret the node it returned.                                 *)
(***************************************************************************)
Returned == call # NoCall

\* The diagnostics the call appended.
Appended == SubSeq(el, Len(elBefore) + 1, Len(el))

\* The root of the tree checked, as parsed.
Root == heapBefore[call.n]

SafeMath == HasOption(call.o, CheckWithSafeMath)

\* C1: a call that returns nil has appended a diagnostic of severity Error.
NilHasError ==
    (Returned /\ ret = Nil) => \E i \in DOMAIN Appended : Appended[i].sev = "Error"

BinaryOperatorKinds ==
    {"AndOperator", "OrOperator", "GreaterOrEqualOperator", "LessOrEqualOperator",
     "NotEqualOperator", "EqualOperator", "GreaterOperator", "LessOperator",
     "ConcatOperator", "AddOperator", "SubOperator", "MulOperator", "DivOperator",
     "ModOperator", "IsOperator", "LikeOperator"}

AllOperandsPending(h, n) ==
    \A i \in DOMAIN h[n].kids : Pending(GetType(h, h[n].kids[i]))

\* C2 as stated: a node returned has a type that is not Pending, unless it
\* is a binary or IN operator whose operands are all Pending.
ReturnedNodeConcrete ==
    (Returned /\ ret > 0 /\ Pending(GetType(heap, ret))) =>
        /\ heap[ret].kind \in BinaryOperatorKinds \cup {"InOperator"}
        /\ AllOperandsPending(heap, ret)

\* C2 amended: a node returned from a call with a type action has a type
\* that is not Pending, unless it is a function call, which is returned
\* unchecked; from a call with the nil type action a node may come back
\* Pending only if it is a constant (a literal or a folded value), a function
\* call, or an operator whose operands are all Pending.
ReturnedNodeConcreteUnlessDeferred ==
    (Returned /\ ret > 0 /\ Pending(GetType(heap, ret))) =>
        IF call.ta = TaNil
        THEN \/ IsValuer(heap[ret])
             \/ heap[ret].kind = "FunctionOperator"
             \/ AllOperandsPending(heap, ret)
        ELSE heap[ret].kind = "FunctionOperator"

\* A NULL checked with an inferring type action came back typed, and a
\* literal checked with the nil type action came back Pending.
ReturnedNodeConcreteWitness ==
    /\ Returned /\ ret > 0
    /\ \/ /\ Root.kind = "NullValue" /\ Pending(Root.type)
          /\ call.ta.k = "InferDefault" /\ ~Pending(GetType(heap, ret))
       \/ /\ Root.kind = "IntegerValue" /\ call.ta = TaNil
          /\ Pending(GetType(heap, ret))

\* A check of a negated literal returned nil.
NilHasErrorWitness ==
    /\ Returned /\ ret = Nil
    /\ Root.kind = "NegOperator"
    /\ \E i \in DOMAIN Appended : Appended[i].sev = "Error"

\* C5: a call leaves the diagnostics recorded before it in place, in order,
\* and only appends to them.
ErrorListOnlyGrows ==
    /\ Len(elBefore) <= Len(el)
    /\ SubSeq(el, 1, Len(elBefore)) = elBefore

\* A failing call was made with a list that already held a diagnostic.
ErrorListOnlyGrowsWitness ==
    /\ Returned /\ ret = Nil
    /\ Len(elBefore) > 0
    /\ Len(el) > Len(elBefore)

ArithmeticOperatorKinds ==
    {"AddOperator", "SubOperator", "MulOperator", "DivOperator", "ModOperator"}

NumberKinds == {"IntegerValue", "DecimalValue"}

NumberLiteral(node) == node.kind \in NumberKinds

FractionalType(dt) == IsFixedRange(MajorOf(dt)) \/ IsUfixedRange(MajorOf(dt))

NumericType(dt) ==
    MajorOf(dt) \in {DataTypeMajorInt, DataTypeMajorUint} \/ FractionalType(dt)

Integral(v) == normalizeDecimal(v).exp >= 0

OutOfRange(v, dt) ==
    \E mm \in {GetMinMax(dt)} : DecLessThan(v, mm.min) \/ DecGreaterThan(v, mm.max)

\* The signed and the unsigned type of size bytes for a number: an integer
\* type for an integer, a fixed-point type with 18 fractional digits
\* otherwise (always of 16 bytes).
SignedOf(v, size) ==
    IF Integral(v) THEN ComposeDataType(DataTypeMajorInt, size - 1)
    ELSE ComposeDataType(DataTypeMajorFixed + 15, 18)

UnsignedOf(v, size) ==
    IF Integral(v) THEN ComposeDataType(DataTypeMajorUint, size - 1)
    ELSE ComposeDataType(DataTypeMajorUfixed + 15, 18)

\* The type an inferring action means for a number: the signed type unless
\* the number exceeds its maximum, then the unsigned one.
InferType(v, size) ==
    IF DecGreaterThan(v, GetMinMax(SignedOf(v, size)).max)
    THEN UnsignedOf(v, size) ELSE SignedOf(v, size)

\* The types a pending number v is given by type action ta (none: {}).
TypesGiven(v, ta) ==
    IF ~safeDecimalRange(normalizeDecimal(v)) THEN {}
    ELSE CASE ta.k = "Assign" ->
                 IF NumericType(ta.dt) /\ (Integral(v) \/ FractionalType(ta.dt))
                 THEN {ta.dt} ELSE {}
           [] ta.k = "InferDefault" -> {InferType(v, 32)}
           [] ta.k = "InferWithSize" -> {InferType(v, ta.size)}
           [] OTHER -> {}

\* The mathematical result of an arithmetic operator (none: division by zero).
Folded(kind, v1, v2) ==
    IF kind \in {"DivOperator", "ModOperator"} /\ DecIsZero(v2) THEN {}
    ELSE {eval(kind, v1, v2)}

Accepts(ta, dt) == ta.k = "Assign" => ta.dt = dt

\* The numbers the call gives a concrete type, each with that type: a
\* literal, the negation of a literal, or the result of an arithmetic
\* operator on two literals (both untyped, or both of one numeric type).
Given ==
    IF ~Returned THEN {}
    ELSE IF NumberLiteral(Root)
    THEN {<<Root.V, dt>> : dt \in TypesGiven(Root.V, call.ta)}
    ELSE IF Len(heapBefore) = 2 /\ Root.kind = "NegOperator" /\ NumberLiteral(heapBefore[1])
            /\ safeDecimalRange(normalizeDecimal(heapBefore[1].V))
    THEN IF Pending(heapBefore[1].type)
         THEN {<<DecNeg(heapBefore[1].V), dt>> :
                  dt \in TypesGiven(DecNeg(heapBefore[1].V), call.ta)}
         ELSE IF NumericType(heapBefore[1].type) /\ Accepts(call.ta, heapBefore[1].type)
         THEN {<<DecNeg(heapBefore[1].V), heapBefore[1].type>>}
         ELSE {}
    ELSE IF Len(heapBefore) = 3 /\ Root.kind \in ArithmeticOperatorKinds
            /\ NumberLiteral(heapBefore[1]) /\ NumberLiteral(heapBefore[2])
    THEN UNION {
         IF Pending(a.type) /\ Pending(b.type)
         THEN UNION {{<<r, dt>> : dt \in TypesGiven(r, call.ta)} :
                        r \in Folded(Root.kind, a.V, b.V)}
         ELSE IF a.type = b.type /\ NumericType(a.type) /\ Accepts(call.ta, a.type)
         THEN {<<r, a.type>> : r \in Folded(Root.kind, a.V, b.V)}
         ELSE {}
         : a \in {heapBefore[1]}, b \in {heapBefore[2]}}
    ELSE {}

\* No number of the tree was changed, and a number created holds one of values.
NotCropped(values) ==
    \A i \in DOMAIN heap :
        heap[i].kind \in NumberKinds =>
            IF i <= Len(heapBefore) THEN DecEqual(heap[i].V, heapBefore[i].V)
            ELSE \E v \in values : DecEqual(heap[i].V, v)

\* C3: with CheckWithSafeMath, a literal or a folded result of unary minus
\* or of + - * / % that lies outside the range of the type it is given makes
\* the check return nil with an Error of code Overflow, and nothing is cropped.
SafeMathOverflowFails ==
    \A g \in Given :
        (SafeMath /\ OutOfRange(g[1], g[2])) =>
            /\ ret = Nil
            /\ \E i \in DOMAIN Appended :
                   Appended[i].sev = "Error" /\ Appended[i].code = "Overflow"
            /\ NotCropped({g[1]})

\* The sum of two literals was out of the range of the type assigned.
SafeMathOverflowFailsWitness ==
    /\ Returned /\ SafeMath /\ ret = Nil
    /\ Root.kind = "AddOperator" /\ call.ta.k = "Assign"
    /\ \E g \in Given : OutOfRange(g[1], g[2])

\* C4: without CheckWithSafeMath, a literal or a folded result that lies
\* outside the range of the type it is given makes the check succeed with a
\* value inside the range, and a Warning and no Error is appended.
PermissiveOverflowCrops ==
    \A g \in Given :
        (~SafeMath /\ OutOfRange(g[1], g[2])) =>
            /\ ret > 0
            /\ heap[ret].kind \in NumberKinds
            /\ ~OutOfRange(heap[ret].V, g[2])
            /\ \E i \in DOMAIN Appended : Appended[i].sev = "Warning"
            /\ \A i \in DOMAIN Appended : Appended[i].sev # "Error"

\* The type action an operator checks its i-th operand with: LIKE assigns
\* bytes to object and pattern and bytes1 to the escape, the others pass nil.
OperandAction(kind, i) ==
    IF kind # "LikeOperator" THEN TaNil
    ELSE IF i <= 2
    THEN newTypeActionAssign(ComposeDataType(DataTypeMajorDynamicBytes, DataTypeMinorDontCare))
    ELSE newTypeActionAssign(ComposeDataType(DataTypeMajorFixedBytes, 0))

\* The check of the i-th operand of the root on its own, with an empty list.
OperandAlone(i) ==
    checkExpr(heapBefore, <<>>, Root.kids[i], call.o, OperandAction(Root.kind, i))

\* The diagnostics of the operands from the i-th on, each checked on its own.
RECURSIVE OperandDiagnostics(_)
OperandDiagnostics(i) ==
    IF i > Len(Root.kids) THEN <<>>
    ELSE OperandAlone(i).el \o OperandDiagnostics(i + 1)

\* C6: a binary operator, or IN, with an operand that fails returns nil after
\* checking every operand, left to right: the diagnostics it appended are
\* those of the first operand, then those of the second, and so on.
AllOperandsChecked ==
    (/\ Returned
     /\ Root.kind \in BinaryOperatorKinds \cup {"InOperator"}
     /\ \A i \in DOMAIN Root.kids : OperandAlone(i).r >= Nil
     /\ \E i \in DOMAIN Root.kids : OperandAlone(i).r = Nil)
        => /\ ret = Nil
           /\ Appended = OperandDiagnostics(1)

\* Both operands of a binary operator failed, and so did two elements of IN.
AllOperandsCheckedWitness ==
    /\ Returned /\ ret = Nil
    /\ Root.kind \in BinaryOperatorKinds \cup {"InOperator"}
    /\ OperandAlone(1).r = Nil
    /\ OperandAlone(2).r = Nil
    /\ OperandAlone(1).el # <<>>
    /\ OperandAlone(2).el # <<>>
    /\ Appended = OperandAlone(1).el \o OperandAlone(2).el

AllOperandsCheckedInWitness ==
    /\ Returned /\ ret = Nil
    /\ Root.kind = "InOperator"
    /\ Len(Root.kids) >= 3
    /\ OperandAlone(2).r = Nil
    /\ OperandAlone(3).r = Nil

\* The truth value of a constant boolean operand: NULL is Unknown.
TruthValue(node) == IF node.kind = "NullValue" THEN BoolValueUnknown ELSE node.V

\* A constant operand AND and OR accept: a boolean literal, or a NULL that
\* is untyped or of type bool.
BoolConstant(node) ==
    \/ node.kind = "BoolValue"
    \/ node.kind = "NullValue" /\ node.type \in {DataTypePending, DataTypeBool}

\* An operand AND and OR accept that is not a constant: the bool column, or
\* a function call.
BoolExpression(node) ==
    \/ node.kind = "Identifier" /\ node.V = "b"
    \/ node.kind = "FunctionOperator"

\* AND and OR of three-valued logic, by cases.
Kleene(kind, a, b) ==
    IF kind = "AndOperator"
    THEN IF a = BoolValueFalse \/ b = BoolValueFalse THEN BoolValueFalse
         ELSE IF a = BoolValueTrue /\ b = BoolValueTrue THEN BoolValueTrue
         ELSE BoolValueUnknown
    ELSE IF a = BoolValueTrue \/ b = BoolValueTrue THEN BoolValueTrue
         ELSE IF a = BoolValueFalse /\ b = BoolValueFalse THEN BoolValueFalse
         ELSE BoolValueUnknown

Absorbing(kind) == IF kind = "AndOperator" THEN BoolValueFalse ELSE BoolValueTrue

LogicalCall ==
    /\ Returned
    /\ Root.kind \in {"AndOperator", "OrOperator"}
    /\ Len(heapBefore) = 3
    /\ Accepts(call.ta, DataTypeBool)

\* C7: AND (OR) of two boolean constants folds to their three-valued
\* conjunction (disjunction), and AND (OR) of the constant False (True) with
\* an operand that is not a constant folds to False (True).
LogicalFolding ==
    LogicalCall =>
        LET a == heapBefore[1]
            b == heapBefore[2]
        IN  /\ (BoolConstant(a) /\ BoolConstant(b)) =>
                   /\ ret > 0
                   /\ heap[ret].kind = "BoolValue"
                   /\ heap[ret].V = Kleene(Root.kind, TruthValue(a), TruthValue(b))
            /\ (\/ BoolConstant(a) /\ TruthValue(a) = Absorbing(Root.kind) /\ BoolExpression(b)
                \/ BoolConstant(b) /\ TruthValue(b) = Absorbing(Root.kind) /\ BoolExpression(a)) =>
                   /\ ret > 0
                   /\ heap[ret].kind = "BoolValue"
                   /\ heap[ret].V = Absorbing(Root.kind)

\* NULL AND FALSE was folded to False.
LogicalFoldingWitness ==
    /\ LogicalCall
    /\ Root.kind = "AndOperator"
    /\ heapBefore[1].kind = "NullValue"
    /\ heapBefore[2].kind = "BoolValue" /\ heapBefore[2].V = BoolValueFalse
    /\ ret > 0 /\ heap[ret].kind = "BoolValue" /\ heap[ret].V = BoolValueFalse

\* A relational operator was checked on two constants, one of them NULL.
RelationalCallWithNull ==
    /\ Returned
    /\ Root.kind \in RelationalKinds
    /\ Len(heapBefore) = 3
    /\ IsValuer(heapBefore[1]) /\ IsValuer(heapBefore[2])
    /\ heapBefore[1].kind = "NullValue" \/ heapBefore[2].kind = "NullValue"

\* C8: a relational operator on two constants of which one is NULL, when it
\* is folded, is folded to the boolean literal Unknown; and it is folded when
\* both are NULL without a type and the type action accepts bool.
NullComparisonUnknown ==
    RelationalCallWithNull =>
        /\ ret > 0 =>
               /\ heap[ret].kind = "BoolValue"
               /\ heap[ret].V = BoolValueUnknown
        /\ (/\ heapBefore[1].kind = "NullValue" /\ Pending(heapBefore[1].type)
            /\ heapBefore[2].kind = "NullValue" /\ Pending(heapBefore[2].type)
            /\ Accepts(call.ta, DataTypeBool)) => ret > 0

\* A number was compared with NULL, and the result is a boolean literal.
NullComparisonUnknownWitness ==
    /\ RelationalCallWithNull
    /\ heapBefore[1].kind = "IntegerValue"
    /\ Root.kind = "LessOrEqualOperator"
    /\ ret > 0 /\ heap[ret].kind = "BoolValue"

\* The width of the i-th operand of the root if, checked, it has a
\* fixed-size bytes type; 0 otherwise.
FixedWidth(i) ==
    LET c == OperandAlone(i)
    IN  IF c.r > 0 /\ MajorOf(GetType(c.h, c.r)) = DataTypeMajorFixedBytes
        THEN MinorOf(GetType(c.h, c.r)) + 1
        ELSE 0

ConcatOfFixed ==
    /\ Returned
    /\ Root.kind = "ConcatOperator"
    /\ Len(heapBefore) = 3
    /\ FixedWidth(1) > 0
    /\ FixedWidth(2) > 0

\* C9: || on operands of fixed-size bytes types of widths a and b returns
\* nil with a type error when a + b > 32; otherwise, unless another type is
\* assigned, it succeeds with the type of width a + b, and two constants are
\* folded to the left bytes followed by the right bytes.
ConcatFixedWidths ==
    ConcatOfFixed =>
        IF FixedWidth(1) + FixedWidth(2) > 32
        THEN /\ ret = Nil
             /\ \E i \in DOMAIN Appended :
                    Appended[i].sev = "Error" /\ Appended[i].code = "TypeError"
        ELSE Accepts(call.ta, FixedBytesOf(FixedWidth(1) + FixedWidth(2))) =>
                 /\ ret > 0
                 /\ GetType(heap, ret) = FixedBytesOf(FixedWidth(1) + FixedWidth(2))
                 /\ (heapBefore[1].kind = "BytesValue" /\ heapBefore[2].kind = "BytesValue") =>
                        /\ heap[ret].kind = "BytesValue"
                        /\ heap[ret].V = heapBefore[1].V \o heapBefore[2].V
                        /\ Len(heap[ret].V) = FixedWidth(1) + FixedWidth(2)

\* Two constants of two bytes each were folded to one of four bytes.
ConcatFixedWidthsWitness ==
    /\ ConcatOfFixed
    /\ heapBefore[1].kind = "BytesValue" /\ heapBefore[2].kind = "BytesValue"
    /\ ret > 0 /\ heap[ret].kind = "BytesValue" /\ Len(heap[ret].V) = 4

\* Two operands of seventeen bytes each were refused.
ConcatTooBigWitness ==
    /\ ConcatOfFixed
    /\ FixedWidth(1) + FixedWidth(2) > 32
    /\ ret = Nil

\* The type the i-th operand of the root has after its check; DataTypeBad
\* when the check fails.
OperandType(i) ==
    LET c == OperandAlone(i)
    IN  IF c.r > 0 THEN GetType(c.h, c.r) ELSE DataTypeBad

IsBytesType(dt) == MajorOf(dt) \in {DataTypeMajorFixedBytes, DataTypeMajorDynamicBytes}

ConcatCall ==
    /\ Returned
    /\ Root.kind = "ConcatOperator"
    /\ Len(heapBefore) = 3

\* C10 as stated: || with one operand of the dynamically-sized bytes type and
\* the other of any bytes type succeeds with the dynamically-sized type.
ConcatWithDynamicAny ==
    (/\ ConcatCall
     /\ Bytes \in {OperandType(1), OperandType(2)}
     /\ IsBytesType(OperandType(1)) /\ IsBytesType(OperandType(2))
     /\ Accepts(call.ta, Bytes))
        => ret > 0 /\ GetType(heap, ret) = Bytes

\* The other operand is of the dynamically-sized type, or a bytes literal
\* that has no type yet.
DynamicOrUntyped(i) ==
    \/ OperandType(i) = Bytes
    \/ heapBefore[i].kind = "BytesValue" /\ Pending(heapBefore[i].type)

\* C10 amended: || with one operand of the dynamically-sized bytes type
\* succeeds with that type when the other operand is of it too or is a bytes
\* literal without a type, and returns nil with a type error when the other
\* operand has a fixed-size bytes type.
ConcatWithDynamic ==
    (ConcatCall /\ Bytes \in {OperandType(1), OperandType(2)}) =>
        /\ (DynamicOrUntyped(1) /\ DynamicOrUntyped(2) /\ Accepts(call.ta, Bytes))
               => ret > 0 /\ GetType(heap, ret) = Bytes
        /\ (FixedWidth(1) > 0 \/ FixedWidth(2) > 0)
               => /\ ret = Nil
                  /\ \E i \in DOMAIN Appended :
                         Appended[i].sev = "Error" /\ Appended[i].code = "TypeError"

\* A column of dynamically-sized bytes was concatenated with an untyped
\* literal.
ConcatWithDynamicWitness ==
    /\ ConcatCall
    /\ heapBefore[1].kind = "Identifier" /\ OperandType(1) = Bytes
    /\ heapBefore[2].kind = "BytesValue" /\ Pending(heapBefore[2].type)
    /\ ret > 0 /\ GetType(heap, ret) = Bytes

\* / or % was checked on a constant and a literal zero.
DivisionByZeroCall ==
    /\ Returned
    /\ Root.kind \in DivisionKinds
    /\ Len(heapBefore) = 3
    /\ IsValuer(heapBefore[1])
    /\ NumberLiteral(heapBefore[2]) /\ DecIsZero(heapBefore[2].V)

\* The call appended the error of a division by zero, at the divisor.
DividedByZeroReported ==
    \E i \in DOMAIN Appended :
        /\ Appended[i].code = "DividedByZero"
        /\ Appended[i].sev = "Error"
        /\ Appended[i].pos = heapBefore[2].pos
        /\ Appended[i].len = heapBefore[2].len

UnifiedNumberType(a, b) ==
    IF Pending(a.type) /\ Pending(b.type) THEN DataTypeBad
    ELSE IF Pending(a.type) THEN (IF NumericType(b.type) THEN b.type ELSE DataTypeBad)
    ELSE IF Pending(b.type) \/ a.type = b.type
    THEN (IF NumericType(a.type) THEN a.type ELSE DataTypeBad)
    ELSE DataTypeBad

DivisionOfNullWitness ==
    /\ DivisionByZeroCall
    /\ heapBefore[1].kind = "NullValue"
    /\ ret > 0 /\ heap[ret].kind = "NullValue"

\* An integer literal was checked.
IntegerLiteralCall ==
    /\ Returned
    /\ Len(heapBefore) = 1
    /\ Root.kind = "IntegerValue"
    /\ safeDecimalRange(normalizeDecimal(Root.V))

\* The size in bytes an inferring type action asks for; 0 for another one.
InferSize(ta) ==
    CASE ta.k = "InferDefault" -> 32
      [] ta.k = "InferWithSize" -> ta.size
      [] OTHER -> 0

IntOf(size) == ComposeDataType(DataTypeMajorInt, size - 1)
UintOf(size) == ComposeDataType(DataTypeMajorUint, size - 1)

\* C12: an integer literal checked with InferDefault (32 bytes) or
\* InferWithSize is given the signed integer type of that size when its
\* value is in the range of the type, the unsigned one when its value is
\* above the signed maximum, and never an unsigned type when negative; with
\* Assign of a numeric type it is given exactly that type.
IntegerLiteralType ==
    IntegerLiteralCall =>
        LET size == InferSize(call.ta)
            v == Root.V
        IN  /\ size > 0 =>
                /\ ~OutOfRange(v, IntOf(size)) =>
                       ret > 0 /\ GetType(heap, ret) = IntOf(size)
                /\ (DecGreaterThan(v, GetMinMax(IntOf(size)).max)
                    /\ ~OutOfRange(v, UintOf(size))) =>
                       ret > 0 /\ GetType(heap, ret) = UintOf(size)
                /\ (ret > 0 /\ DecGreaterThan(v, GetMinMax(IntOf(size)).max)) =>
                       GetType(heap, ret) = UintOf(size)
                /\ (ret > 0 /\ v.neg) => GetType(heap, ret) = IntOf(size)
            /\ (call.ta.k = "Assign" /\ NumericType(call.ta.dt)) =>
                /\ ret > 0 => GetType(heap, ret) = call.ta.dt
                /\ ~OutOfRange(v, call.ta.dt) => ret > 0

\* 128 was given the type uint8 for the size of one byte.
IntegerLiteralTypeWitness ==
    /\ IntegerLiteralCall
    /\ call.ta.k = "InferWithSize"
    /\ DecGreaterThan(Root.V, GetMinMax(IntOf(1)).max)
    /\ ret > 0 /\ GetType(heap, ret) = UintOf(1)

\* -129 was cropped and given the type int8.
IntegerLiteralNegativeWitness ==
    /\ IntegerLiteralCall
    /\ call.ta.k = "InferWithSize"
    /\ Root.V.neg /\ OutOfRange(Root.V, IntOf(1))
    /\ ret > 0 /\ GetType(heap, ret) = IntOf(1)

\* C13: every call of checkExpr terminates: its recursion does not go on
\* until the stack overflows.
CheckTerminates == Returned => ret # StackOverflow

\* Whether the relation of a relational operator holds between two values
\* that compare as d: -1 (less), 0 (equal) or 1 (greater).
RelationHolds(kind, d) ==
    CASE kind = "GreaterOrEqualOperator" -> d >= 0
      [] kind = "LessOrEqualOperator" -> d <= 0
      [] kind = "NotEqualOperator" -> d # 0
      [] kind = "EqualOperator" -> d = 0
      [] kind = "GreaterOperator" -> d > 0
      [] kind = "LessOperator" -> d < 0

\* How two constants of one kind compare: False before True, bytes in
\* lexicographic order, numbers by value.
CompareConstants(a, b) ==
    IF a.kind = "BoolValue"
    THEN (IF a.V = BoolValueTrue THEN 1 ELSE 0) - (IF b.V = BoolValueTrue THEN 1 ELSE 0)
    ELSE IF a.kind = "BytesValue" THEN BytesCompare(a.V, b.V)
    ELSE DecCmp(a.V, b.V)

\* A relational operator on two constants of one kind, none of them NULL or
\* Unknown, was folded.
RelationalFolded ==
    /\ Returned
    /\ Root.kind \in RelationalKinds
    /\ Len(heapBefore) = 3
    /\ \/ /\ heapBefore[1].kind = "BoolValue" /\ heapBefore[2].kind = "BoolValue"
          /\ heapBefore[1].V # BoolValueUnknown /\ heapBefore[2].V # BoolValueUnknown
       \/ heapBefore[1].kind = "BytesValue" /\ heapBefore[2].kind = "BytesValue"
       \/ NumberLiteral(heapBefore[1]) /\ NumberLiteral(heapBefore[2])
    /\ ret > 0
    /\ heap[ret].kind = "BoolValue"

\* C18: a relational operator folded on two constants of one kind, none of
\* them NULL, gives True exactly when its relation holds between the left
\* and the right constant, and False otherwise.
RelationalFolding ==
    RelationalFolded =>
        heap[ret].V = NewBoolValueFromBool(
                          RelationHolds(Root.kind, CompareConstants(heapBefore[1], heapBefore[2])))

\* The check of the same tree with the nil type action and an empty list.
Unhinted == checkExpr(heapBefore, <<>>, call.n, call.o, TaNil)

\* The tree checked is a column or an operator (but not one of the two that
\* are removed and stand for their operand, + and parentheses), and its
\* check without a type action gives a node of a concrete type.
ConcreteNodeCall ==
    /\ Returned
    /\ ~IsValuer(Root)
    /\ Root.kind \notin {"PosOperator", "ParenOperator"}
    /\ Unhinted.r > 0
    /\ ~Pending(GetType(Unhinted.h, Unhinted.r))

TypeErrors ==
    {i \in DOMAIN Appended : Appended[i].sev = "Error" /\ Appended[i].code = "TypeError"}

\* C19: a column or an operator whose type is concrete is checked with an
\* inferring type action, or with Assign of its own type, as with no type
\* action: the same node of the same type is returned and nothing more is
\* appended; with Assign of another type nil is returned and what is
\* appended more is exactly one Error, a type error.
ConcreteTypeKept ==
    ConcreteNodeCall =>
        IF call.ta.k = "Assign" /\ call.ta.dt # GetType(Unhinted.h, Unhinted.r)
        THEN /\ ret = Nil
             /\ Len(Appended) = Len(Unhinted.el) + 1
             /\ SubSeq(Appended, 1, Len(Unhinted.el)) = Unhinted.el
             /\ Appended[Len(Appended)].sev = "Error"
             /\ Appended[Len(Appended)].code = "TypeError"
        ELSE /\ ret = Unhinted.r
             /\ heap = Unhinted.h
             /\ Appended = Unhinted.el

\* A column of type uint8 was checked with InferDefault and kept its type.
ConcreteTypeKeptWitness ==
    /\ ConcreteNodeCall
    /\ Root.kind = "Identifier"
    /\ call.ta.k = "InferDefault"
    /\ ret > 0 /\ GetType(heap, ret) = Uint8

\* The sum of two columns of type uint8 was refused the type int8.
ConcreteTypeRefusedWitness ==
    /\ ConcreteNodeCall
    /\ Root.kind \in ArithmeticOperatorKinds
    /\ call.ta.k = "Assign"
    /\ ret = Nil /\ Cardinality(TypeErrors) = 1

LiteralKinds ==
    {"BoolValue", "AddressValue", "IntegerValue", "DecimalValue", "BytesValue", "NullValue"}

\* Whether the check function of a literal, at the switch on type action
\* ta, takes a case that ends in goto executeTypeAction.
Jumps(node, ta) ==
    CASE node.kind \in {"IntegerValue", "DecimalValue"} -> ta.k = "InferWithMajor"
      [] node.kind = "BytesValue" ->
            checkBytesValueJumps(ta) /\ checkBytesValueGoto(ta, Len(node.V)).k # "fail"
      [] OTHER -> FALSE

\* The type action the jump is made with.
Rewritten(node, ta) ==
    CASE node.kind = "IntegerValue" -> checkIntegerValueAction(ta)
      [] node.kind = "DecimalValue" -> checkDecimalValueAction(ta)
      [] node.kind = "BytesValue" -> checkBytesValueGoto(ta, Len(node.V))

\* The number of jumps to executeTypeAction the check of a literal makes,
\* counted up to k.
RECURSIVE Redispatches(_, _, _)
Redispatches(node, ta, k) ==
    IF k = 0 \/ ~Jumps(node, ta) THEN 0
    ELSE 1 + Redispatches(node, Rewritten(node, ta), k - 1)

MaxGoto == 5

LiteralCall ==
    /\ Returned
    /\ Len(heapBefore) = 1
    /\ Root.kind \in LiteralKinds

\* C20 as stated: the check of a literal rewrites its type action and jumps
\* back at most once.
RedispatchedOnce ==
    LiteralCall => Redispatches(Root, call.ta, MaxGoto) <= 1

\* C20 amended: the check of a literal rewrites its type action and jumps
\* back at most twice, and twice only for a bytes literal with
\* InferWithMajor of a major that is no bytes major (it becomes
\* InferDefault, then Assign of the dynamically-sized bytes type); the
\* action it ends with does not jump.
RedispatchedTwice ==
    LiteralCall =>
        LET jumps == Redispatches(Root, call.ta, MaxGoto)
        IN  /\ jumps <= 2
            /\ jumps = 2 =>
                   /\ Root.kind = "BytesValue"
                   /\ call.ta.k = "InferWithMajor"
                   /\ call.ta.major \notin {DataTypeMajorFixedBytes, DataTypeMajorDynamicBytes}
                   /\ ret > 0 /\ GetType(heap, ret) = Bytes
            /\ (ret > 0 /\ call.ta.k \in {"InferDefault", "InferWithSize", "InferWithMajor"})
                   => ~Pending(GetType(heap, ret))

\* A bytes literal checked with InferWithMajor of uint was given the
\* dynamically-sized bytes type, after two jumps.
RedispatchedTwiceWitness ==
    /\ LiteralCall
    /\ Root.kind = "BytesValue"
    /\ call.ta.k = "InferWithMajor" /\ call.ta.major = DataTypeMajorUint
    /\ Redispatches(Root, call.ta, MaxGoto) = 2
    /\ ret > 0 /\ GetType(heap, ret) = Bytes

(***************************************************************************)
(* The peer set.                                                           *)
(***************************************************************************)
\* A step of the peer set that is a call, not the return of a broadcast loop.
SetCallStep == ~(psOp' = psOp /\ psBefore' = psBefore /\ running' # running)

SetErrors == {errClosed, errAlreadyRegistered, errNotRegistered}

SetUnchanged ==
    /\ peers = psBefore.peers
    /\ running = psBefore.running
    /\ term = psBefore.term

RegisterContract ==
    psOp.name = "Register" =>
        IF psBefore.closed THEN psOp.err = errClosed
        ELSE IF psBefore.peers[psOp.id] # NoPeer THEN psOp.err = errAlreadyRegistered
        ELSE /\ psOp.err = errNone
             /\ peers = [psBefore.peers EXCEPT ![psOp.id] = psOp.p]
             /\ running = [psBefore.running EXCEPT ![psOp.p] = @ + 1]

UnregisterContract ==
    psOp.name = "Unregister" =>
        IF psBefore.peers[psOp.id] = NoPeer THEN psOp.err = errNotRegistered
        ELSE /\ psOp.err \notin SetErrors
             /\ peers = [psBefore.peers EXCEPT ![psOp.id] = NoPeer]

ErrorContract ==
    (psOp.name \in {"Register", "Unregister"} /\ psOp.err \in SetErrors) => SetUnchanged

\* C14: Register returns errClosed on a closed set, errAlreadyRegistered when a
\* peer with the same id is in the set, and otherwise adds the peer and starts
\* its broadcast loop; Unregister returns errNotRegistered when the id is not
\* in the set and otherwise removes the peer; when either returns an error the
\* peers map is unchanged and no broadcast loop is started or stopped.
RegisterUnregister ==
    [][SetCallStep => (RegisterContract /\ UnregisterContract /\ ErrorContract)']_vars

\* Another peer with the id of a registered peer was refused.
RegisterUnregisterWitness ==
    /\ psOp.name = "Register"
    /\ psOp.err = errAlreadyRegistered
    /\ peers[psOp.id] # psOp.p
    /\ SetUnchanged

\* An id that is not in the set was refused.
UnregisterRefusedWitness ==
    /\ psOp.name = "Unregister"
    /\ psOp.err = errNotRegistered
    /\ \E id \in Ids : peers[id] # NoPeer
    /\ SetUnchanged

Registered == {<<id, peers[id]>> : id \in {i \in Ids : peers[i] # NoPeer}}

\* C15: once Close has returned, every later Register returns errClosed and
\* the set of registered peers never grows again, however the Register,
\* Unregister and Close calls interleave.
ClosedStaysClosed ==
    /\ []((closed /\ psOp.name = "Register") => psOp.err = errClosed)
    /\ [][closed => (closed' /\ Registered' \subseteq Registered)]_vars

\* A peer whose id is free was refused by a closed set.
ClosedStaysClosedWitness ==
    /\ closed
    /\ psOp.name = "Register"
    /\ psOp.err = errClosed
    /\ peers[psOp.id] = NoPeer

(***************************************************************************)
(* One peer.                                                               *)
(***************************************************************************)
WasFull == Len(pBefore.queued[pOp.q]) >= Capacity(pOp.q)

ItemHashes(k) == IF k = KnownSetOf(pOp.q) THEN HashesOf(pOp.item) ELSE {}

\* C16: an AsyncSend... call on a queue that holds its capacity of items drops
\* the item: the queue is unchanged and the hashes of the item are not added to
\* the known set; otherwise exactly one item is enqueued and its hashes are
\* added to the known set; no queue ever holds more than its capacity.
AsyncSendDropsOrEnqueues ==
    /\ pOp.name = "AsyncSend" =>
          IF WasFull
          THEN queued = pBefore.queued /\ known = pBefore.known
          ELSE /\ queued = [pBefore.queued EXCEPT ![pOp.q] = Append(@, pOp.item)]
               /\ \A k \in KnownSets : known[k] = pBefore.known[k] \cup ItemHashes(k)
    /\ \A q \in Queues : Len(queued[q]) <= Capacity(q)

\* An item with a hash the peer does not know was dropped at a full queue.
AsyncSendDropsOrEnqueuesWitness ==
    /\ pOp.name = "AsyncSend"
    /\ WasFull
    /\ KnownSetOf(pOp.q) # NoKnown
    /\ HashesOf(pOp.item) # {}
    /\ HashesOf(pOp.item) \cap known[KnownSetOf(pOp.q)] = {}

\* An item was enqueued behind another and its hashes became known.
AsyncSendEnqueuesWitness ==
    /\ pOp.name = "AsyncSend"
    /\ ~WasFull
    /\ Len(queued[pOp.q]) = 2
    /\ HashesOf(pOp.item) # {}
    /\ HashesOf(pOp.item) \cap pBefore.known["knownTxs"] = {}
    /\ HashesOf(pOp.item) \subseteq known["knownTxs"]

\* C17: after any sequence of MarkBlock, MarkTransaction, MarkNodeRecord,
\* Send... and AsyncSend... calls the known-block set holds at most
\* maxKnownBlocks hashes, the known-transaction set at most maxKnownTxs and the
\* known-record set at most maxKnownRecords.
KnownSetsBounded == \A k \in MarkedSets : Cardinality(known[k]) <= maxKnown(k)

(***************************************************************************)
(* Concatenation of a typed operand and an untyped literal.                *)
(***************************************************************************)
UntypedBytesLiteral(i) ==
    /\ heapBefore[i].kind = "BytesValue"
    /\ Pending(heapBefore[i].type)

\* The i-th operand has a fixed-size bytes type and the other is a literal
\* without a type whose bytes fit beside it in thirty-two bytes.
FixedAndLiteral(i, j) ==
    /\ ConcatCall
    /\ FixedWidth(i) > 0
    /\ UntypedBytesLiteral(j)
    /\ Len(heapBefore[j].V) >= 1
    /\ Len(heapBefore[j].V) <= 32
    /\ FixedWidth(i) + Len(heapBefore[j].V) <= 32
    /\ Accepts(call.ta, FixedBytesOf(FixedWidth(i) + Len(heapBefore[j].V)))

FixedAndLiteralTyped(i, j) ==
    /\ ret > 0
    /\ GetType(heap, ret) = FixedBytesOf(FixedWidth(i) + Len(heapBefore[j].V))
    /\ \/ heap[ret].kind = "BytesValue"
       \/ GetType(heap, heap[ret].kids[j]) = FixedBytesOf(Len(heapBefore[j].V))

\* C21: || on one operand of a concrete type of a bytes and an untyped bytes
\* literal of b bytes, 1 <= b <= 32 and a + b <= 32, succeeds: the literal
\* gets the type of b bytes and the operator the type of a + b bytes.
ConcatTypesLiteral ==
    /\ FixedAndLiteral(1, 2) => FixedAndLiteralTyped(1, 2)
    /\ FixedAndLiteral(2, 1) => FixedAndLiteralTyped(2, 1)

(***************************************************************************)
(* IN on constants.                                                        *)
(***************************************************************************)
InChildren == [i \in DOMAIN Root.kids |-> heapBefore[Root.kids[i]]]

ConstantFamily(node) ==
    IF node.kind = "BoolValue" THEN "bool"
    ELSE IF node.kind \in {"BytesValue", "AddressValue"} THEN node.kind
    ELSE IF NumberLiteral(node) THEN "number"
    ELSE IF node.kind = "NullValue" THEN "null"
    ELSE "none"

\* IN was checked on constants of one kind, NULL among them or not, and no
\* type other than bool is assigned to it.
InOfConstants ==
    /\ Returned
    /\ Root.kind = "InOperator"
    /\ \A i \in DOMAIN InChildren : ConstantFamily(InChildren[i]) # "none"
    /\ \A i, j \in DOMAIN InChildren :
           \/ ConstantFamily(InChildren[i]) = ConstantFamily(InChildren[j])
           \/ "null" \in {ConstantFamily(InChildren[i]), ConstantFamily(InChildren[j])}
    /\ \A i \in DOMAIN InChildren :
           InChildren[i].kind = "BoolValue" => InChildren[i].V # BoolValueUnknown
    /\ Accepts(call.ta, DataTypeBool)

InHasNull == \E i \in DOMAIN InChildren : InChildren[i].kind = "NullValue"

InEqualsSome ==
    /\ InChildren[1].kind # "NullValue"
    /\ \E i \in DOMAIN InChildren :
           /\ i > 1
           /\ InChildren[i].kind # "NullValue"
           /\ CompareConstants(InChildren[1], InChildren[i]) = 0

InValue ==
    IF InEqualsSome THEN BoolValueTrue
    ELSE IF InHasNull THEN BoolValueUnknown
    ELSE BoolValueFalse

\* C22: IN on constants of compatible kinds, some or all of them NULL or
\* none, returns a boolean literal: True when the left operand equals some
\* right operand, else Unknown when an operand is NULL, else False.
InFolding ==
    InOfConstants =>
        /\ ret > 0
        /\ heap[ret].kind = "BoolValue"
        /\ heap[ret].V = InValue

(***************************************************************************)
(* Nodes returned in place of the node checked.                            *)
(***************************************************************************)
\* The check returned a node allocated during it, for a root that is not a
\* sign or a pair of parentheses (these return their operand).
ReplacedByNew ==
    /\ Returned
    /\ Root.kind \notin {"PosOperator", "ParenOperator"}
    /\ ret > Len(heapBefore)

SamePlace(new, old) == new.pos = old.pos /\ new.len = old.len /\ new.tok = old.tok

\* C23: a literal node the check allocates and returns in place of the node
\* checked (an operator folded, a decimal literal redirected to an integer
\* literal, an integer literal converted to an address literal) carries the
\* position, length and token of the node it replaces, and a folded
\* operator node keeps its own.
NewNodeInPlace ==
    ReplacedByNew =>
        /\ SamePlace(heap[ret], Root)
        /\ SamePlace(heap[call.n], Root)
        /\ heap[call.n].kind = Root.kind

(***************************************************************************)
(* Unary minus over a constant.                                            *)
(***************************************************************************)
NegOfLiteral ==
    /\ Returned
    /\ Root.kind = "NegOperator"
    /\ Len(heapBefore) = 2

NegOfNumber ==
    /\ NegOfLiteral
    /\ NumberLiteral(heapBefore[1])
    /\ safeDecimalRange(normalizeDecimal(heapBefore[1].V))

\* The operand is a NULL without a type or of a numeric type, and no other
\* type is assigned to the result.
NegOfNull ==
    /\ NegOfLiteral
    /\ heapBefore[1].kind = "NullValue"
    /\ Pending(heapBefore[1].type) \/ NumericType(heapBefore[1].type)
    /\ \/ call.ta = TaNil
       \/ /\ call.ta.k = "Assign"
          /\ NumericType(call.ta.dt)
          /\ Pending(heapBefore[1].type) \/ heapBefore[1].type = call.ta.dt

OverflowError ==
    \E i \in DOMAIN Appended : Appended[i].sev = "Error" /\ Appended[i].code = "Overflow"

OverflowWarning == \E i \in DOMAIN Appended : Appended[i].sev = "Warning"

NegatedNumber ==
    /\ (call.ta = TaNil /\ Pending(heapBefore[1].type)) =>
           /\ ret > 0
           /\ heap[ret].kind \in NumberKinds
           /\ DecEqual(heap[ret].V, DecNeg(heapBefore[1].V))
    /\ \A g \in Given :
           IF ~OutOfRange(g[1], g[2])
           THEN /\ ret > 0
                /\ heap[ret].kind \in NumberKinds
                /\ DecEqual(heap[ret].V, g[1])
                /\ GetType(heap, ret) = g[2]
           ELSE IF SafeMath
           THEN ret = Nil /\ OverflowError
           ELSE /\ ret > 0
                /\ heap[ret].kind \in NumberKinds
                /\ ~OutOfRange(heap[ret].V, g[2])
                /\ OverflowWarning

NegatedNull == ret > 0 /\ heap[ret].kind = "NullValue"

\* C24: unary minus over a numeric constant v gives a literal of value -v,
\* checked against the range of its concrete type or cropped to it as the
\* overflow policy says; over a NULL constant the check succeeds and gives a
\* NULL literal.
NegOfConstant ==
    /\ NegOfNumber => NegatedNumber
    /\ NegOfNull => NegatedNull

(***************************************************************************)
(* Folding a result that is in range.                                      *)
(***************************************************************************)
ArithmeticFold ==
    /\ Returned
    /\ Root.kind \in ArithmeticOperatorKinds
    /\ Len(heapBefore) = 3

NoOverflowDiagnostic ==
    \A i \in DOMAIN Appended :
        Appended[i].sev # "Warning" /\ Appended[i].code # "Overflow"

\* C25: folding + - * / % to a result inside the range of the concrete type
\* of the operator returns that result unchanged and appends neither an
\* overflow Warning nor an overflow Error, with and without
\* CheckWithSafeMath; a Warning is appended only for a value that was out
\* of range and cropped.  (A quotient with a fraction is rounded to the
\* fractional digits of its type; an integer is returned as it is.)
InRangeFoldIsSilent ==
    ArithmeticFold =>
        \A g \in Given :
            ~OutOfRange(g[1], g[2]) =>
                /\ ret > 0
                /\ heap[ret].kind \in NumberKinds
                /\ Integral(g[1]) => DecEqual(heap[ret].V, g[1])
                /\ NoOverflowDiagnostic

(***************************************************************************)
(* The ordered comparisons.                                                *)
(***************************************************************************)
OrderedCategory(dt) ==
    \/ MajorOf(dt) \in {DataTypeMajorBool, DataTypeMajorAddress, DataTypeMajorInt,
                        DataTypeMajorUint, DataTypeMajorFixedBytes, DataTypeMajorDynamicBytes}
    \/ IsFixedRange(MajorOf(dt))
    \/ IsUfixedRange(MajorOf(dt))

\* An ordered comparison was checked on two operands of one concrete type.
OrderedCall ==
    /\ Returned
    /\ Root.kind \in OrderedKinds
    /\ Len(heapBefore) = 3
    /\ OperandType(1) = OperandType(2)
    /\ ~Pending(OperandType(1))
    /\ OperandType(1) # DataTypeBad
    /\ OrderedCategory(OperandType(1))

\* C26: > >= < <= on two operands of one concrete type that is bool, address,
\* int, uint, fixed, ufixed, fixed-size bytes or dynamically-sized bytes does
\* not fail with a type error.
OrderedAcceptsAll ==
    OrderedCall =>
        ~(/\ ret = Nil
          /\ \E i \in DOMAIN Appended :
                 Appended[i].sev = "Error" /\ Appended[i].code = "TypeError")

(***************************************************************************)
(* The broadcast loop of a peer.                                           *)
(***************************************************************************)
\* C28: whatever Register and Unregister calls are made on a peer set, the
\* same peer registered again after it was unregistered or not, the term
\* channel of each peer is closed at most once: Unregister never closes a
\* channel that is closed already.
TermClosedOnce == \A p \in Peers : term[p] <= 1

\* Unregister has closed the term channel of the peer.
Unregistered == term[ThePeer] > 0

\* A step of the loop that wrote a message.
LoopWrote == steps' # steps /\ pOp'.name = "broadcast"

\* C27: after Unregister succeeds for a registered peer, the broadcast loop
\* of the peer returns in the end, items in its queues or not; the loop
\* returns as soon as a send of it fails; and once it has returned it writes
\* no further message.
LoopReturns ==
    /\ Unregistered ~> ~loop
    /\ [][(LoopWrote /\ pOp'.err) => ~loop']_vars
    /\ [][LoopWrote => loop]_vars
    /\ [][~loop => ~loop']_vars

\* The loop has returned after Unregister with items left in its queues.
LoopReturnsWitness ==
    /\ Unregistered
    /\ ~loop
    /\ running[ThePeer] = 0
    /\ pOp.name = "AsyncSend"
    /\ \E q \in Queues : queued[q] # <<>>

\* The loop has returned after a send that failed.
LoopFailedWitness ==
    /\ ~Unregistered
    /\ ~loop
    /\ pOp.name = "broadcast" /\ pOp.err

\* The labels an id of allDirectPeers maps to.
LabelsOf(id) == allDirectPeers[id]

\* The server calls made for an id, one after the other, from the direct
\* peers before the method: AddDirectPeer comes only for an id that has no
\* label and RemoveDirectPeer only for one that has, each with the node of
\* that id.  Held is whether the id is a direct peer after the calls so far.
RECURSIVE CallsInTurn(_, _, _)
CallsInTurn(id, calls, held) ==
    IF calls = <<>> THEN held = (id \in DOMAIN allDirectPeers)
    ELSE /\ Head(calls)[2] = id
         /\ Head(calls)[1] = IF held THEN "RemoveDirectPeer" ELSE "AddDirectPeer"
         /\ CallsInTurn(id, Tail(calls), ~held)

\* A label of a round up to r is left somewhere in the peer set.
LabelLeft(r) ==
    \/ \E label \in directConn : label.round <= r
    \/ \E label \in DOMAIN groupConnPeers : label.round <= r
    \/ \E label \in DOMAIN label2Nodes : label.round <= r
    \/ \E id \in DOMAIN allDirectPeers : \E label \in LabelsOf(id) : label.round <= r

\* C29: after any sequence of BuildConnection, ForgetConnection and
\* EnsureGroupConn calls every id in allDirectPeers has at least one label;
\* the server was told AddDirectPeer for an id exactly when it got its first
\* label and RemoveDirectPeer exactly when it lost its last, so the direct
\* peers of the server are the keys of allDirectPeers; and after
\* ForgetConnection(r) no label of a round up to r is left in directConn,
\* groupConnPeers, label2Nodes or allDirectPeers.
DirectPeersConsistent ==
    /\ \A id \in DOMAIN allDirectPeers : LabelsOf(id) # {}
    /\ \A id \in Ids : CallsInTurn(id, cOp.calls[id], id \in cOp.direct)
    /\ srvr = DOMAIN allDirectPeers
    /\ cOp.name = "ForgetConnection" => ~LabelLeft(cOp.round)

\* ForgetConnection(1) took the last label from a direct peer, and the server
\* was told; a peer of a label of round 2 remains.
DirectPeersWitness ==
    /\ cOp.name = "ForgetConnection"
    /\ cOp.round = 1
    /\ \E id \in Ids : cOp.calls[id] = <<<<"RemoveDirectPeer", id>>>>
    /\ \E id \in DOMAIN allDirectPeers : \E label \in LabelsOf(id) : label.round = 2

\* EnsureGroupConn dropped a peer that timed out and took it again.
EnsureWitness ==
    /\ cOp.name = "EnsureGroupConn"
    /\ \E id \in Ids : Len(cOp.calls[id]) = 2

\* The goroutine holds ps.lock, for reading or for writing.
Holds(g) == lock.writer = g \/ g \in lock.readers

AtMaps(g) == gor[g].at = "maps"

\* Two goroutines use one of the maps, one of them writing it.
Races(g, h) ==
    /\ g # h
    /\ AtMaps(g)
    /\ AtMaps(h)
    /\ gor[g].method.writes \cap (gor[h].method.reads \cup gor[h].method.writes) # {}

\* C30: every read and write of label2Nodes, directConn, groupConnPeers and
\* allDirectPeers happens with ps.lock held, so no two goroutines in
\* BuildConnection, ForgetConnection, EnsureGroupConn, Refresh, Status or
\* PeersWithLabel use these maps at the same time with one of them writing.
MapsUnderLock ==
    /\ \A g \in Goroutines : AtMaps(g) => Holds(g)
    /\ \A g \in Goroutines : \A h \in Goroutines : ~Races(g, h)
====
